---------------------------- MODULE Spec2Model ----------------------------
(* State-machine model of the MCP network-diagnostics client and server:   *)
(*   - Configuration (credential pools and rotation cursors)               *)
(*   - McpServer.executeTool (retry loop)                                  *)
(*   - ChatSession.processLLMResponse (tool-call parsing and dispatch)     *)
(*   - executeCommand / streamCommand / geoIPLookupTool.handler (approval) *)
(*   - the SSE server registry and the client's SSEManager                 *)
EXTENDS Integers, Sequences, FiniteSets, TLC

(***************************************************************************)
(* Bounds of the model                                                     *)
(***************************************************************************)
MaxKeys == 3      \* longest credential pool explored
MaxReads == 4     \* number of llmApiKey reads explored in one behaviour

Keys == {"k1", "k2"}
NoKey == "undefined"

SeqsUpTo(S, n) == UNION {[1..k -> S] : k \in 0..n}

VARIABLES
  \* ---- Configuration (config.ts) ----
  geminiApiKeys,           \* Configuration.geminiApiKeys
  groqApiKeys,             \* Configuration.groqApiKeys
  currentGeminiKeyIndex,   \* Configuration.currentGeminiKeyIndex
  currentGroqKeyIndex,     \* Configuration.currentGroqKeyIndex
  LLM_PROVIDER,            \* process.env.LLM_PROVIDER (raw text)
  keyReads,                \* observation: one record per read of llmApiKey
  \* ---- McpServer.executeTool (mcpServer.ts) ----
  etClient,                \* this.client is set (the handle is connected)
  etRetries,               \* parameter retries
  etAttempt,               \* local variable attempt
  etPc,                    \* position in executeTool
  etCallLog,               \* observation: outcome of every client.callTool
  etOutcome,               \* what executeTool returned or threw
  \* ---- server: executeCommand / streamCommand / geoIP handler ----
  ops,                     \* one record per tool-handler invocation
  \* ---- server: SSE registry (lib/sse.ts) ----
  sseConnections,          \* session ids with a registered response stream
  sseWire,                 \* per session id: frames written, not yet delivered
  sseEmitted,              \* observation: every sendSSEEvent call, per id
  \* ---- client: SSEManager ----
  esState,                 \* per session id: state of its EventSource
  activeSSEConnections,    \* SSEManager.activeSSEConnections (its keys)
  sseReceived,             \* observation: events given to handleSSEEvent
  \* ---- client: ChatSession.processLLMResponse ----
  chPc,                    \* position in processLLMResponse
  chReply,                 \* llmResponse
  chTool,                  \* actualToolName
  chArgs,                  \* modifiedArgs
  chSessionId,             \* sessionId minted for a streaming tool
  chServer,                \* index of the provider loop
  chCalls,                 \* observation: provider calls made
  chResult,                \* what processLLMResponse returned
  \* ---- client: McpServer handles ----
  handles,                 \* per provider: the fields of its McpServer
  \* ---- client: ChatSession.start ----
  sPc,                     \* position in start()
  sIdx,                    \* index of the loop over this.servers
  messages,                \* the history
  sInputs,                 \* observation: promptForInput calls made
  sLlmCalls,               \* observation: getResponse calls made
  sEnd,                    \* observation: why start() is ending
  sCleanupRuns,            \* observation: cleanupServers() calls returned
  sSseClosed,              \* observation: ids whose EventSource cleanup closed
  sCmd,                    \* observation: the last / or @ command, its outcome
  allTools,                \* the local allTools of start(): names of the tools
  \* ---- client: LLMClient (llmClient.ts) ----
  llm,                     \* the two SDK clients and the getResponse call
  \* ---- client: elicitation handler and getInputFromUser ----
  elicit                   \* the approval prompt: what was typed, what is sent

cfgVars == <<geminiApiKeys, groqApiKeys, currentGeminiKeyIndex,
             currentGroqKeyIndex, LLM_PROVIDER, keyReads>>

etVars == <<etClient, etRetries, etAttempt, etPc, etCallLog, etOutcome>>

srvVars == <<ops, sseConnections, sseWire, sseEmitted>>
sseClientVars == <<esState, activeSSEConnections, sseReceived>>

chatVars == <<chPc, chReply, chTool, chArgs, chSessionId, chServer, chCalls,
              chResult>>

sessVars == <<sPc, sIdx, messages, sInputs, sLlmCalls, sEnd, sCleanupRuns,
              sSseClosed, sCmd, allTools>>

vars == <<cfgVars, etVars, srvVars, sseClientVars, chatVars, handles, sessVars,
          llm, elicit>>

\* the variables each component leaves alone
notCfgVars == <<etVars, srvVars, sseClientVars, chatVars, handles, sessVars, llm, elicit>>
notEtVars == <<cfgVars, srvVars, sseClientVars, chatVars, handles, sessVars, llm, elicit>>
notSrvVars == <<cfgVars, etVars, chatVars, handles, sessVars, llm, elicit>>
notChatVars == <<cfgVars, etVars, srvVars, sseClientVars, handles, sessVars, llm, elicit>>
notHandleVars == <<cfgVars, etVars, srvVars, sseClientVars, chatVars, sessVars, llm, elicit>>
notSessVars == <<cfgVars, etVars, srvVars, sseClientVars, chatVars, handles, llm, elicit>>
notLlmVars == <<etVars, srvVars, sseClientVars, chatVars, handles, sessVars,
                elicit>>
notElicitVars == <<cfgVars, etVars, sseClientVars, chatVars, handles, sessVars,
                   llm>>

(***************************************************************************)
(* Configuration: provider selection and credential rotation               *)
(***************************************************************************)
EnvValues == {"unset", "gemini", "groq", "GROQ", "openai"}

\* String.prototype.toLowerCase on the environment values of the model
toLowerCase(s) == IF s = "GROQ" THEN "groq" ELSE s

\* get llmProvider(): "groq" only for a value that lower-cases to groq
llmProvider(env) == IF env # "unset" /\ toLowerCase(env) = "groq"
                    THEN "groq" ELSE "gemini"

\* get totalKeys()
totalKeys(env, gk, qk) == IF llmProvider(env) = "groq" THEN Len(qk) ELSE Len(gk)

\* variant of llmApiKey without the empty-pool check
llmApiKey_noEmptyCheck(env, gk, qk, gi, qi) ==
  LET provider == llmProvider(env)
      keyArray == IF provider = "groq" THEN qk ELSE gk
      currentIndex == IF provider = "groq" THEN qi ELSE gi
  IN  IF currentIndex + 1 \notin DOMAIN keyArray
      THEN [outcome |-> "InvalidState", key |-> NoKey, gi |-> gi, qi |-> qi]
      ELSE [outcome |-> "ok", key |-> keyArray[currentIndex + 1],
            gi |-> IF provider = "groq" THEN gi ELSE (gi + 1) % Len(keyArray),
            qi |-> IF provider = "groq" THEN (qi + 1) % Len(keyArray) ELSE qi]

\* variant of llmApiKey that returns the key and leaves the cursor in place
llmApiKey_noAdvance(env, gk, qk, gi, qi) ==
  LET provider == llmProvider(env)
      keyArray == IF provider = "groq" THEN qk ELSE gk
      currentIndex == IF provider = "groq" THEN qi ELSE gi
  IN  IF Len(keyArray) = 0
      THEN [outcome |-> "NoCredentials", key |-> NoKey, gi |-> gi, qi |-> qi]
      ELSE [outcome |-> "ok", key |-> keyArray[currentIndex + 1],
            gi |-> gi, qi |-> qi]

\* variant of llmApiKey that advances the cursor without wrapping round
llmApiKey_noWrap(env, gk, qk, gi, qi) ==
  LET provider == llmProvider(env)
      keyArray == IF provider = "groq" THEN qk ELSE gk
      currentIndex == IF provider = "groq" THEN qi ELSE gi
  IN  IF Len(keyArray) = 0
      THEN [outcome |-> "NoCredentials", key |-> NoKey, gi |-> gi, qi |-> qi]
      ELSE IF currentIndex + 1 \notin DOMAIN keyArray
      THEN [outcome |-> "InvalidState", key |-> NoKey, gi |-> gi, qi |-> qi]
      ELSE [outcome |-> "ok", key |-> keyArray[currentIndex + 1],
            gi |-> IF provider = "groq" THEN gi ELSE gi + 1,
            qi |-> IF provider = "groq" THEN qi + 1 ELSE qi]

\* get llmApiKey(): the result of one read and the cursors after it
llmApiKey(env, gk, qk, gi, qi) ==
  LET provider == llmProvider(env)
      keyArray == IF provider = "groq" THEN qk ELSE gk
      currentIndex == IF provider = "groq" THEN qi ELSE gi
  IN  IF Len(keyArray) = 0
      THEN [outcome |-> "NoCredentials", key |-> NoKey, gi |-> gi, qi |-> qi]
      ELSE IF currentIndex + 1 \notin DOMAIN keyArray
      THEN [outcome |-> "InvalidState", key |-> NoKey, gi |-> gi, qi |-> qi]
      ELSE [outcome |-> "ok", key |-> keyArray[currentIndex + 1],
            gi |-> IF provider = "groq" THEN gi ELSE (gi + 1) % Len(keyArray),
            qi |-> IF provider = "groq" THEN (qi + 1) % Len(keyArray) ELSE qi]

\* the record kept for one read of llmApiKey under environment value env
ReadRecord(env, r) ==
  [provider |-> llmProvider(env),
   index    |-> IF llmProvider(env) = "groq" THEN currentGroqKeyIndex
                ELSE currentGeminiKeyIndex,
   before   |-> <<currentGeminiKeyIndex, currentGroqKeyIndex>>,
   after    |-> <<r.gi, r.qi>>,
   outcome  |-> r.outcome,
   key      |-> r.key]

\* Configuration(): pools loaded from the environment, cursors at 0
ConfigConstructed ==
  /\ geminiApiKeys \in SeqsUpTo(Keys, MaxKeys)
  /\ groqApiKeys \in SeqsUpTo(Keys, MaxKeys)
  /\ currentGeminiKeyIndex = 0
  /\ currentGroqKeyIndex = 0
  /\ LLM_PROVIDER \in EnvValues
  /\ keyReads = <<>>

\* a caller reads config.llmApiKey under the configured provider
ReadLlmApiKey ==
  /\ Len(keyReads) < MaxReads
  /\ LET r == llmApiKey(LLM_PROVIDER, geminiApiKeys, groqApiKeys,
                        currentGeminiKeyIndex, currentGroqKeyIndex)
     IN  /\ currentGeminiKeyIndex' = r.gi
         /\ currentGroqKeyIndex' = r.qi
         /\ keyReads' = Append(keyReads, ReadRecord(LLM_PROVIDER, r))
  /\ UNCHANGED <<geminiApiKeys, groqApiKeys, LLM_PROVIDER>>
  /\ UNCHANGED notCfgVars

\* variant of getApiKeyForProvider without the finally block
getApiKeyForProvider_noRestore(provider) ==
  /\ Len(keyReads) < MaxReads
  /\ LET r == llmApiKey(provider, geminiApiKeys, groqApiKeys,
                        currentGeminiKeyIndex, currentGroqKeyIndex)
     IN  /\ currentGeminiKeyIndex' = r.gi
         /\ currentGroqKeyIndex' = r.qi
         /\ keyReads' = Append(keyReads, ReadRecord(provider, r))
         /\ LLM_PROVIDER' = provider
  /\ UNCHANGED <<geminiApiKeys, groqApiKeys>>
  /\ UNCHANGED notCfgVars

\* LLMClient.getApiKeyForProvider(provider)
getApiKeyForProvider(provider) ==
  /\ Len(keyReads) < MaxReads
  /\ LET originalProvider == llmProvider(LLM_PROVIDER)
         r == llmApiKey(provider, geminiApiKeys, groqApiKeys,
                        currentGeminiKeyIndex, currentGroqKeyIndex)
     IN  /\ currentGeminiKeyIndex' = r.gi
         /\ currentGroqKeyIndex' = r.qi
         /\ keyReads' = Append(keyReads, ReadRecord(provider, r))
         /\ LLM_PROVIDER' = originalProvider
  /\ UNCHANGED <<geminiApiKeys, groqApiKeys>>
  /\ UNCHANGED notCfgVars

GetGeminiKey == getApiKeyForProvider("gemini")
GetGroqKey == getApiKeyForProvider("groq")

NextConfig == ReadLlmApiKey \/ GetGeminiKey \/ GetGroqKey

(***************************************************************************)
(* McpServer.executeTool: the retry loop around client.callTool            *)
(***************************************************************************)
MaxRetries == 3    \* largest value of the retries parameter explored
DefaultRetries == 2

Errors == {"e1", "e2", "e3"}
\* what client.callTool can return: a result with content (error flag clear
\* or set) or a result without content
CallResults == {[content |-> "text", isError |-> FALSE],
                [content |-> "text", isError |-> TRUE],
                [content |-> "none", isError |-> FALSE]}

NoOutcome == [kind |-> "none"]

\* variant of the loop test that admits one attempt too many
moreAttempts_offByOne(attempt, retries) == attempt <= retries

\* the loop test of executeTool: while (attempt < retries) / if (attempt < retries)
moreAttempts(attempt, retries) == attempt < retries

\* a result missing content is replaced by an empty, non-error result
normalizeResult(result) ==
  IF result.content = "none" THEN [content |-> "empty", isError |-> FALSE]
  ELSE result

\* no executeTool call is in progress in this specification
ExecuteToolIdle ==
  /\ etClient = FALSE
  /\ etRetries = DefaultRetries
  /\ etAttempt = 0
  /\ etPc = "idle"
  /\ etCallLog = <<>>
  /\ etOutcome = NoOutcome

\* a handle, connected or not, and the retries argument of the call to come
InitExecuteTool ==
  /\ etClient \in BOOLEAN
  /\ etRetries \in 0..MaxRetries
  /\ etAttempt = 0
  /\ etPc = "idle"
  /\ etCallLog = <<>>
  /\ etOutcome = NoOutcome

\* executeTool is entered: the client check, then the first loop test
ExecuteToolEnter ==
  /\ etPc = "idle"
  /\ etAttempt' = 0
  /\ IF ~etClient
     THEN /\ etPc' = "done"
          /\ etOutcome' = [kind |-> "thrown", error |-> "NotInitialized"]
     ELSE IF moreAttempts(0, etRetries)
     THEN /\ etPc' = "calling"
          /\ etOutcome' = etOutcome
     ELSE /\ etPc' = "done"
          /\ etOutcome' = [kind |-> "thrown", error |-> "FailedToExecuteTool"]
  /\ UNCHANGED <<etClient, etRetries, etCallLog>>
  /\ UNCHANGED notEtVars

\* variant of the try block that treats a result flagged isError as a throw
CallToolReturns_retryOnError ==
  /\ etPc = "calling"
  /\ \E r \in CallResults :
       /\ etCallLog' = Append(etCallLog, [kind |-> "returned", result |-> r])
       /\ IF r.isError /\ etAttempt + 1 < etRetries
          THEN /\ etAttempt' = etAttempt + 1
               /\ etPc' = "delay"
               /\ etOutcome' = etOutcome
          ELSE /\ etAttempt' = etAttempt
               /\ etPc' = "done"
               /\ etOutcome' = [kind |-> "returned", result |-> normalizeResult(r)]
  /\ UNCHANGED <<etClient, etRetries>>
  /\ UNCHANGED notEtVars

\* client.callTool returns: executeTool returns the (normalised) result
CallToolReturns ==
  /\ etPc = "calling"
  /\ \E r \in CallResults :
       /\ etCallLog' = Append(etCallLog, [kind |-> "returned", result |-> r])
       /\ etOutcome' = [kind |-> "returned", result |-> normalizeResult(r)]
  /\ etPc' = "done"
  /\ UNCHANGED <<etClient, etRetries, etAttempt>>
  /\ UNCHANGED notEtVars

\* client.callTool throws: count the attempt, then wait or rethrow
CallToolThrows ==
  /\ etPc = "calling"
  /\ \E e \in Errors :
       /\ etCallLog' = Append(etCallLog, [kind |-> "thrown", error |-> e])
       /\ etAttempt' = etAttempt + 1
       /\ IF moreAttempts(etAttempt + 1, etRetries)
          THEN /\ etPc' = "delay"
               /\ etOutcome' = etOutcome
          ELSE /\ etPc' = "done"
               /\ etOutcome' = [kind |-> "thrown", error |-> e]
  /\ UNCHANGED <<etClient, etRetries>>
  /\ UNCHANGED notEtVars

\* the retry delay has elapsed: the loop test again, then the next attempt
RetryDelayElapsed ==
  /\ etPc = "delay"
  /\ IF moreAttempts(etAttempt, etRetries)
     THEN /\ etPc' = "calling"
          /\ etOutcome' = etOutcome
     ELSE /\ etPc' = "done"
          /\ etOutcome' = [kind |-> "thrown", error |-> "FailedToExecuteTool"]
  /\ UNCHANGED <<etClient, etRetries, etAttempt, etCallLog>>
  /\ UNCHANGED notEtVars

NextExecuteTool ==
  ExecuteToolEnter \/ CallToolReturns \/ CallToolThrows \/ RetryDelayElapsed

\* the configuration is fixed in the specifications that do not read keys
ConfigFixed ==
  /\ geminiApiKeys = <<"k1">>
  /\ groqApiKeys = <<>>
  /\ currentGeminiKeyIndex = 0
  /\ currentGroqKeyIndex = 0
  /\ LLM_PROVIDER = "unset"
  /\ keyReads = <<>>

(***************************************************************************)
(* Server: approval-gated tool handlers and the SSE registry               *)
(***************************************************************************)
MaxOutput == 2     \* stdout chunks one command emits at most

Ops == {1, 2}
SessionIds == {"s1", "s2"}
\* the sessionId argument of an invocation
SidOf(o) == IF o = 1 THEN "s1" ELSE "s2"

\* answers of the elicitation request
Responses == [action : {"accept", "decline", "cancel"},
              content : {"absent", "empty", "approvedTrue", "approvedFalse"}]
NoResponse == [action |-> "none", content |-> "absent"]
ThrownResponse == [action |-> "threw", content |-> "absent"]

\* what the environment does to the two child processes of one invocation:
\* whether each can be spawned, the exit codes, and whether a process whose
\* spawn failed still emits close after error
Envs == [cmdSpawns : BOOLEAN, jcSpawns : BOOLEAN, cmdCode : {0, 1, 2},
         jcCode : {0, 1}, closeAfterError : BOOLEAN]
SpawnFailedCode == 0 - 2

NoResult == [text |-> "pending", isError |-> "pending"]
DenialCommand == [text |-> "Request denied by user. Command execution was not approved.",
                  isError |-> "false"]
DenialLookup == [text |-> "Request denied by user. IP geolocation lookup was not approved.",
                 isError |-> "false"]
ApprovalFailed == [text |-> "Failed to request user approval", isError |-> "true"]

\* variant of the approval test that looks at the action only
approved_actionOnly(resp) == resp.action = "accept"

\* action === "accept" && content?.approved === true
approved(resp) == resp.action = "accept" /\ resp.content = "approvedTrue"

\* variant of the elicitation catch block that lets the error escape
approvalFailureResult_rethrow(kind) ==
  [text |-> "Failed to request user approval", isError |-> "thrown"]

\* the catch block around the elicitation request
approvalFailureResult(kind) == ApprovalFailed

\* the else branch of the approval test
denialResult(kind) == IF kind = "geoIP" THEN DenialLookup ELSE DenialCommand

\* the exit codes of the command that count as success
acceptableCodes(kind, tool) ==
  IF kind = "streamCommand" /\ tool = "ping" THEN {0, 2} ELSE {0}

\* the result checkCompletion resolves with once both processes have exited
completionResult(kind, tool, commandCode, jcCode, parseOk, stderr) ==
  IF commandCode \in acceptableCodes(kind, tool) /\ jcCode = 0
  THEN [text |-> IF parseOk THEN "parsed jc JSON" ELSE "raw jc output",
        isError |-> "absent"]
  ELSE IF commandCode \in acceptableCodes(kind, tool) /\ jcCode # 0
  THEN [text |-> "raw command output", isError |-> "absent"]
  ELSE [text |-> IF stderr = "command" THEN "Error: command stderr"
                 ELSE IF stderr = "jc" THEN "Error: jc stderr"
                 ELSE "Error: command failed with exit code",
        isError |-> "true"]

\* resolve(): only the first resolution of the promise takes effect
resolve(current, r) == IF current = NoResult THEN r ELSE current

\* the event an invocation hands to sendSSEEvent; an output event carries
\* the chunk of stdout it was made from, numbered in production order
Event(o, kind) ==
  [sid |-> SidOf(o), op |-> o, tool |-> ops[o].tool, kind |-> kind,
   n |-> IF kind = "output" THEN ops[o].outputs + 1 ELSE 0]
ConnectedEvent(sid) ==
  [sid |-> sid, op |-> 0, tool |-> "sse", kind |-> "connected", n |-> 0]

\* variant of sendSSEEvent that writes to every registered connection
sendSSEEvent_broadcast(conns, wire, sid, event, writeOk) ==
  [conns |-> IF writeOk THEN conns ELSE {},
   wire  |-> [c \in SessionIds |->
                IF c \in conns /\ writeOk THEN Append(wire[c], event)
                ELSE wire[c]]]

\* sendSSEEvent(sessionId, event): write to the connection registered for
\* the id; a failing write removes the connection; no connection, no write
sendSSEEvent(conns, wire, sid, event, writeOk) ==
  IF sid \in conns
  THEN IF writeOk
       THEN [conns |-> conns, wire |-> [wire EXCEPT ![sid] = Append(@, event)]]
       ELSE [conns |-> conns \ {sid}, wire |-> wire]
  ELSE [conns |-> conns, wire |-> wire]

\* the effect of one sendSSEEvent call made by invocation o
Send(o, kind, writeOk) ==
  LET ev == Event(o, kind)
      r  == sendSSEEvent(sseConnections, sseWire, SidOf(o), ev, writeOk)
  IN  /\ sseConnections' = r.conns
      /\ sseWire' = r.wire
      /\ sseEmitted' = [sseEmitted EXCEPT ![SidOf(o)] =
                          Append(@, [event |-> ev,
                                     reg  |-> SidOf(o) \in sseConnections,
                                     live |-> (SidOf(o) \in sseConnections
                                               /\ writeOk)])]

NoSend == UNCHANGED <<sseConnections, sseWire, sseEmitted>>

\* sendSSEEvent is called by streamCommand only
SendIfStream(o, kind) ==
  IF ops[o].kind = "streamCommand"
  THEN \E writeOk \in BOOLEAN : Send(o, kind, writeOk)
  ELSE NoSend

IdleOp(kind, tool, env) ==
  [kind |-> kind, tool |-> tool, env |-> env, pc |-> "idle",
   response |-> NoResponse, spawns |-> 0, fetches |-> 0,
   cmd |-> "none", jc |-> "none", cmdErrored |-> FALSE, jcErrored |-> FALSE,
   commandCode |-> 0, jcCode |-> 0, outputs |-> 0, completions |-> 0,
   result |-> NoResult]

\* the tool handlers of the server and the command each one runs
Handlers == {<<"executeCommand", "dig">>, <<"streamCommand", "ping">>,
             <<"streamCommand", "traceroute">>, <<"geoIP", "fetch">>}
QuietEnv == [cmdSpawns |-> TRUE, jcSpawns |-> TRUE, cmdCode |-> 0,
             jcCode |-> 0, closeAfterError |-> TRUE]
AbsentOp == IdleOp("none", "none", QuietEnv)

\* a tool handler is invoked and sends its elicitation request
ToolCalled(o) ==
  /\ ops[o].kind # "none"
  /\ ops[o].pc = "idle"
  /\ ops' = [ops EXCEPT ![o].pc = "awaitApproval"]
  /\ NoSend
  /\ UNCHANGED <<sseClientVars, notSrvVars>>

\* the elicitation request is answered
ElicitationAnswered(o) ==
  /\ ops[o].pc = "awaitApproval"
  /\ \E resp \in Responses :
       IF approved(resp)
       THEN IF ops[o].kind = "geoIP"
            THEN /\ ops' = [ops EXCEPT ![o].response = resp,
                                       ![o].pc = "fetching",
                                       ![o].fetches = @ + 1]
                 /\ NoSend
            ELSE /\ ops' = [ops EXCEPT ![o].response = resp,
                                       ![o].pc = "running",
                                       ![o].spawns = @ + 2,
                                       ![o].cmd = "spawned",
                                       ![o].jc = "spawned"]
                 /\ SendIfStream(o, "start")
       ELSE /\ ops' = [ops EXCEPT ![o].response = resp,
                                  ![o].pc = "returned",
                                  ![o].result = denialResult(ops[o].kind)]
            /\ SendIfStream(o, "cancelled")
  /\ UNCHANGED <<sseClientVars, notSrvVars>>

\* the elicitation request throws
ElicitationThrows(o) ==
  /\ ops[o].pc = "awaitApproval"
  /\ ops' = [ops EXCEPT ![o].response = ThrownResponse,
                        ![o].pc = "returned",
                        ![o].result = approvalFailureResult(ops[o].kind)]
  /\ SendIfStream(o, "error")
  /\ UNCHANGED <<sseClientVars, notSrvVars>>

\* variant in which stdout data still arrives after the process has closed
CommandData_afterClose(o) ==
  /\ ops[o].cmd \in {"spawned", "closed"}
  /\ ops[o].env.cmdSpawns
  /\ ops[o].outputs < MaxOutput
  /\ ops' = [ops EXCEPT ![o].outputs = @ + 1]
  /\ SendIfStream(o, "output")
  /\ UNCHANGED <<sseClientVars, notSrvVars>>

\* commandProcess.stdout "data"
CommandData(o) ==
  /\ ops[o].cmd = "spawned"
  /\ ops[o].env.cmdSpawns
  /\ ops[o].outputs < MaxOutput
  /\ ops' = [ops EXCEPT ![o].outputs = @ + 1]
  /\ SendIfStream(o, "output")
  /\ UNCHANGED <<sseClientVars, notSrvVars>>

\* commandProcess "error": the command could not be spawned
CommandError(o) ==
  /\ ops[o].cmd = "spawned"
  /\ ~ops[o].env.cmdSpawns
  /\ ~ops[o].cmdErrored
  /\ ops' = [ops EXCEPT ![o].cmdErrored = TRUE,
                        ![o].pc = "returned",
                        ![o].result = resolve(@, [text |-> "Failed to execute command",
                                                  isError |-> "true"])]
  /\ SendIfStream(o, "error")
  /\ UNCHANGED <<sseClientVars, notSrvVars>>

\* jcProcess "error": jc could not be spawned
JcError(o) ==
  /\ ops[o].jc = "spawned"
  /\ ~ops[o].env.jcSpawns
  /\ ~ops[o].jcErrored
  /\ ops' = [ops EXCEPT ![o].jcErrored = TRUE,
                        ![o].pc = "returned",
                        ![o].result = resolve(@, [text |-> "Failed to execute jc command",
                                                  isError |-> "true"])]
  /\ NoSend
  /\ UNCHANGED <<sseClientVars, notSrvVars>>

\* variant of checkCompletion that runs the branch when either has exited
CheckCompletion_either(o, cmdState, jcState, commandCode, jcCode) ==
  IF cmdState = "closed" \/ jcState = "closed"
  THEN /\ \E parseOk \in BOOLEAN, stderr \in {"none", "command", "jc"} :
            ops' = [ops EXCEPT
                      ![o].cmd = cmdState, ![o].jc = jcState,
                      ![o].commandCode = commandCode, ![o].jcCode = jcCode,
                      ![o].completions = @ + 1,
                      ![o].pc = "returned",
                      ![o].result = resolve(@, completionResult(ops[o].kind,
                                       ops[o].tool, commandCode, jcCode,
                                       parseOk, stderr))]
       /\ SendIfStream(o, "complete")
  ELSE /\ ops' = [ops EXCEPT ![o].cmd = cmdState, ![o].jc = jcState,
                             ![o].commandCode = commandCode,
                             ![o].jcCode = jcCode]
       /\ NoSend

\* checkCompletion() as called from a close handler, given the exit flags
\* and codes after that handler's assignments
CheckCompletion(o, cmdState, jcState, commandCode, jcCode) ==
  IF cmdState = "closed" /\ jcState = "closed"
  THEN /\ \E parseOk \in BOOLEAN, stderr \in {"none", "command", "jc"} :
            ops' = [ops EXCEPT
                      ![o].cmd = cmdState, ![o].jc = jcState,
                      ![o].commandCode = commandCode, ![o].jcCode = jcCode,
                      ![o].completions = @ + 1,
                      ![o].pc = "returned",
                      ![o].result = resolve(@, completionResult(ops[o].kind,
                                       ops[o].tool, commandCode, jcCode,
                                       parseOk, stderr))]
       /\ SendIfStream(o, "complete")
  ELSE /\ ops' = [ops EXCEPT ![o].cmd = cmdState, ![o].jc = jcState,
                             ![o].commandCode = commandCode,
                             ![o].jcCode = jcCode]
       /\ NoSend

\* commandProcess "close"
CommandClose(o) ==
  /\ ops[o].cmd = "spawned"
  /\ \/ ops[o].env.cmdSpawns
     \/ ops[o].cmdErrored /\ ops[o].env.closeAfterError
  /\ CheckCompletion(o, "closed", ops[o].jc,
                     IF ops[o].env.cmdSpawns THEN ops[o].env.cmdCode
                     ELSE SpawnFailedCode,
                     ops[o].jcCode)
  /\ UNCHANGED <<sseClientVars, notSrvVars>>

\* jcProcess "close"
JcClose(o) ==
  /\ ops[o].jc = "spawned"
  /\ \/ ops[o].env.jcSpawns
     \/ ops[o].jcErrored /\ ops[o].env.closeAfterError
  /\ CheckCompletion(o, ops[o].cmd, "closed", ops[o].commandCode,
                     IF ops[o].env.jcSpawns THEN ops[o].env.jcCode
                     ELSE SpawnFailedCode)
  /\ UNCHANGED <<sseClientVars, notSrvVars>>

\* geoIP: fetch() settles (response ok, response not ok, or a throw)
FetchSettles(o) ==
  /\ ops[o].pc = "fetching"
  /\ \E r \in {[text |-> "geolocation JSON", isError |-> "absent"],
               [text |-> "API request failed with status", isError |-> "true"],
               [text |-> "Failed to fetch geolocation data", isError |-> "true"]} :
       ops' = [ops EXCEPT ![o].pc = "returned", ![o].result = r]
  /\ NoSend
  /\ UNCHANGED <<sseClientVars, notSrvVars>>

(***************************************************************************)
(* SSE: the GET /sse/:sessionId endpoint and the client's SSEManager       *)
(***************************************************************************)
\* the tools whose event types handleSSEEvent knows
StreamTools == {"ping", "traceroute"}

\* SSEManager.connectToSSE(sessionId): create the EventSource, register it
connectToSSE(sid) ==
  /\ esState[sid] = "none"
  /\ esState' = [esState EXCEPT ![sid] = "connecting"]
  /\ activeSSEConnections' = activeSSEConnections \cup {sid}
  /\ UNCHANGED <<sseReceived, srvVars, notSrvVars>>

\* GET /sse/:sessionId: write the connected frame, store the connection
SseEndpoint(sid) ==
  /\ esState[sid] = "connecting"
  /\ esState' = [esState EXCEPT ![sid] = "accepted"]
  /\ sseWire' = [sseWire EXCEPT ![sid] = Append(@, ConnectedEvent(sid))]
  /\ sseConnections' = sseConnections \cup {sid}
  /\ UNCHANGED <<ops, sseEmitted, activeSSEConnections, sseReceived, notSrvVars>>

\* eventSource.onopen
EventSourceOpen(sid) ==
  /\ esState[sid] = "accepted"
  /\ esState' = [esState EXCEPT ![sid] = "open"]
  /\ UNCHANGED <<activeSSEConnections, sseReceived, srvVars, notSrvVars>>

\* eventSource.onerror before any open: the error is displayed and the
\* promise of connectToSSE is neither resolved nor rejected
EventSourceError(sid) ==
  /\ esState[sid] = "connecting"
  /\ esState' = [esState EXCEPT ![sid] = "error"]
  /\ UNCHANGED <<activeSSEConnections, sseReceived, srvVars, notSrvVars>>

\* handleSSEEvent(sessionId, event): the subscriptions left registered and
\* whether the EventSource of sessionId gets closed
handleSSEEvent(active, sid, event) ==
  IF event.tool \in StreamTools /\ event.kind = "complete" /\ sid \in active
  THEN [active |-> active \ {sid}, close |-> TRUE]
  ELSE [active |-> active, close |-> FALSE]

\* eventSource.onmessage: the next frame reaches handleSSEEvent
DeliverSSE(sid) ==
  /\ esState[sid] = "open"
  /\ sseWire[sid] # <<>>
  /\ LET event == Head(sseWire[sid])
         h == handleSSEEvent(activeSSEConnections, sid, event)
     IN  /\ sseReceived' = [sseReceived EXCEPT ![sid] = Append(@, event)]
         /\ activeSSEConnections' = h.active
         /\ esState' = [esState EXCEPT ![sid] = IF h.close THEN "closed" ELSE @]
  /\ sseWire' = [sseWire EXCEPT ![sid] = Tail(@)]
  /\ UNCHANGED <<ops, sseConnections, sseEmitted, notSrvVars>>

\* SSEManager.closeConnection(sessionId): the subscriber closes its
\* EventSource and forgets it
closeConnection(sid) ==
  /\ sid \in activeSSEConnections
  /\ esState[sid] \in {"accepted", "open"}
  /\ esState' = [esState EXCEPT ![sid] = "closed"]
  /\ activeSSEConnections' = activeSSEConnections \ {sid}
  /\ UNCHANGED <<sseReceived, srvVars, notSrvVars>>

\* variant of the close handler that also ends the operations of the id
ReqClose_abort(sid) ==
  /\ esState[sid] = "closed"
  /\ sid \in sseConnections
  /\ sseConnections' = sseConnections \ {sid}
  /\ ops' = [o \in Ops |->
               IF SidOf(o) = sid /\ ops[o].pc = "running"
               THEN [ops[o] EXCEPT !.pc = "returned",
                                   !.cmd = "closed", !.jc = "closed",
                                   !.result = [text |-> "Subscriber disconnected",
                                               isError |-> "true"]]
               ELSE ops[o]]
  /\ UNCHANGED <<sseWire, sseEmitted, sseClientVars, notSrvVars>>

\* req.on("close"): the server notices that the subscriber has gone
ReqClose(sid) ==
  /\ esState[sid] = "closed"
  /\ sid \in sseConnections
  /\ sseConnections' = sseConnections \ {sid}
  /\ UNCHANGED <<ops, sseWire, sseEmitted, sseClientVars, notSrvVars>>

(***************************************************************************)
(* ChatSession.processLLMResponse: tool-call parsing and dispatch          *)
(***************************************************************************)
NumServers == 2    \* providers of the session

Servers == 1..NumServers
ToolNames == {"network-ping", "network-dnsLookup", "unknown-tool"}
\* the tool catalogs a provider may report
Catalogs == SUBSET {"network-ping", "network-dnsLookup"}

\* the value found under "tool" in a reply that is a JSON object
ToolValues == {"absent", "null", "emptyString", "number"} \cup ToolNames
\* the value found under "arguments"
ArgValues == {"absent", "null", "false", "zero", "emptyString", "string",
              "number", "array", "emptyObject", "object",
              "objectWithSessionId"}
\* how the reply is wrapped: not at all, in a ```json or a bare ``` fence,
\* in a fence with another language tag, or in a fence that is never closed
Fences == {"none", "json", "plain", "otherTag", "unclosed"}
\* the text inside: prose, nothing, a JSON value that is no object, an object
BodyKinds == {"prose", "empty", "null", "number", "string", "array", "object"}

Body(t, tool, arguments) == [t |-> t, tool |-> tool, arguments |-> arguments]
Replies ==
  {[fence |-> f, body |-> Body(t, "absent", "absent")] :
      f \in Fences, t \in BodyKinds \ {"object"}}
  \cup
  {[fence |-> f, body |-> Body("object", tv, av)] :
      f \in Fences, tv \in ToolValues, av \in ArgValues}

NotJson == Body("prose", "absent", "absent")

\* the text handed to JSON.parse: the capture group of codeBlockRegex when
\* the trimmed reply matches it and the capture is not empty
stripFence(reply) ==
  IF reply.fence = "none" THEN reply.body
  ELSE IF reply.fence \in {"json", "plain"} /\ reply.body.t # "empty"
  THEN reply.body
  ELSE NotJson

\* JavaScript truthiness of a property value
truthy(v) == v \notin {"absent", "null", "false", "zero", "emptyString"}

\* JSON.parse succeeded, reading .tool did not throw, and
\* toolCall.tool && toolCall.arguments
isToolCall(parsed) ==
  /\ parsed.t = "object"
  /\ truthy(parsed.tool)
  /\ truthy(parsed.arguments)

\* { ...toolCall.arguments }, then sessionId set for a streaming tool
modifiedArgs(arguments, sessionId) ==
  [base |-> IF arguments \in {"object", "objectWithSessionId"} THEN "object"
            ELSE IF arguments = "string" THEN "characters"
            ELSE IF arguments = "array" THEN "elements"
            ELSE "emptyObject",
   sessionId |-> IF sessionId # "none" THEN sessionId
                 ELSE IF arguments = "objectWithSessionId" THEN "fromModel"
                 ELSE "absent"]

\* toolCall.tool === "network-traceroute" || toolCall.tool === "network-ping"
isStreamingTool(tool) == tool \in {"network-traceroute", "network-ping"}

\* variant of the catalog test that accepts any provider with tools
catalogHas_anyTool(catalog, name) == catalog # {}

\* tools.some((tool) => tool.name === actualToolName)
catalogHas(catalog, name) == name \in catalog

NoChatResult == [kind |-> "none", detail |-> "none"]
NoArgs == [base |-> "none", sessionId |-> "absent"]

\* no reply is being processed in this specification
ChatIdle ==
  /\ chPc = "off"
  /\ chReply = [fence |-> "none", body |-> NotJson]
  /\ chTool = "absent"
  /\ chArgs = NoArgs
  /\ chSessionId = "none"
  /\ chServer = 1
  /\ chCalls = <<>>
  /\ chResult = NoChatResult

\* processLLMResponse(llmResponse) up to the provider loop: strip the fence,
\* parse, test for a tool call, copy the arguments, mint a session id for a
\* streaming tool
ProcessLLMResponse ==
  /\ chPc = "idle"
  /\ \E reply \in Replies :
       LET parsed == stripFence(reply)
       IN  /\ chReply' = reply
           /\ IF ~isToolCall(parsed)
              THEN /\ chPc' = "done"
                   /\ chResult' = [kind |-> "reply", detail |-> "llmResponse"]
                   /\ UNCHANGED <<chTool, chArgs, chSessionId>>
              ELSE /\ chTool' = parsed.tool
                   /\ chResult' = chResult
                   /\ IF isStreamingTool(parsed.tool)
                      THEN /\ \E sid \in {c \in SessionIds : esState[c] = "none"} :
                                /\ chSessionId' = sid
                                /\ chArgs' = modifiedArgs(parsed.arguments, sid)
                           /\ chPc' = "connecting"
                      ELSE /\ chArgs' = modifiedArgs(parsed.arguments, "none")
                           /\ chSessionId' = chSessionId
                           /\ chPc' = "listing"
  /\ UNCHANGED <<chServer, chCalls>>
  /\ UNCHANGED notChatVars

\* await this.sseManager.connectToSSE(sessionId): the EventSource is created
ChatConnectToSSE ==
  /\ chPc = "connecting"
  /\ connectToSSE(chSessionId)

\* new EventSource() throws: connectToSSE rejects, the caller logs a warning
ChatConnectRejected ==
  /\ chPc = "connecting"
  /\ esState[chSessionId] = "none"
  /\ chPc' = "listing"
  /\ UNCHANGED <<chReply, chTool, chArgs, chSessionId, chServer, chCalls, chResult>>
  /\ UNCHANGED notChatVars

\* variant that goes on without waiting for the promise of connectToSSE
ChatConnectResolved_noAwait ==
  /\ chPc = "connecting"
  /\ esState[chSessionId] \in {"connecting", "accepted", "open", "closed"}
  /\ chPc' = "listing"
  /\ UNCHANGED <<chReply, chTool, chArgs, chSessionId, chServer, chCalls, chResult>>
  /\ UNCHANGED notChatVars

\* onopen has resolved the promise of connectToSSE
ChatConnectResolved ==
  /\ chPc = "connecting"
  /\ esState[chSessionId] \in {"open", "closed"}
  /\ chPc' = "listing"
  /\ UNCHANGED <<chReply, chTool, chArgs, chSessionId, chServer, chCalls, chResult>>
  /\ UNCHANGED notChatVars

\* server.listTools() returns: execute on this provider if its catalog has
\* the tool, else go on to the next provider, or report that none has it
ListToolsReturns ==
  /\ chPc = "listing"
  /\ \E catalog \in Catalogs :
       LET listed == [op |-> "listTools", server |-> chServer,
                      catalog |-> catalog, name |-> chTool, args |-> NoArgs]
           called == [op |-> "executeTool", server |-> chServer,
                      catalog |-> catalog, name |-> chTool, args |-> chArgs]
       IN  IF catalogHas(catalog, chTool)
           THEN /\ chCalls' = chCalls \o <<listed, called>>
                /\ chPc' = "executing"
                /\ UNCHANGED <<chServer, chResult>>
           ELSE /\ chCalls' = Append(chCalls, listed)
                /\ IF chServer < NumServers
                   THEN /\ chServer' = chServer + 1
                        /\ UNCHANGED <<chPc, chResult>>
                   ELSE /\ chPc' = "done"
                        /\ chResult' = [kind |-> "noServer", detail |-> chTool]
                        /\ chServer' = chServer
  /\ UNCHANGED <<chReply, chTool, chArgs, chSessionId>>
  /\ UNCHANGED notChatVars

\* server.listTools() throws: the outer catch returns the reply
ListToolsThrows ==
  /\ chPc = "listing"
  /\ chCalls' = Append(chCalls, [op |-> "listTools", server |-> chServer,
                                 catalog |-> {"threw"}, name |-> chTool,
                                 args |-> NoArgs])
  /\ chPc' = "done"
  /\ chResult' = [kind |-> "reply", detail |-> "llmResponse"]
  /\ UNCHANGED <<chReply, chTool, chArgs, chSessionId, chServer>>
  /\ UNCHANGED notChatVars

\* server.executeTool(actualToolName, modifiedArgs) is entered
ChatExecuteToolEnter ==
  /\ chPc = "executing"
  /\ ExecuteToolEnter

\* variant that goes on to the next provider when the execution failed
ChatToolDone_tryNext ==
  /\ chPc = "executing"
  /\ etPc = "done"
  /\ IF etOutcome.kind = "thrown" /\ chServer < NumServers
     THEN /\ chPc' = "listing"
          /\ chServer' = chServer + 1
          /\ chResult' = chResult
          /\ etPc' = "idle"
          /\ etOutcome' = NoOutcome
          /\ etAttempt' = 0
     ELSE /\ chPc' = "done"
          /\ chResult' = IF etOutcome.kind = "returned"
                         THEN [kind |-> "toolResult",
                               detail |-> etOutcome.result.content]
                         ELSE [kind |-> "toolError", detail |-> etOutcome.error]
          /\ UNCHANGED <<chServer, etPc, etOutcome, etAttempt>>
  /\ UNCHANGED <<chReply, chTool, chArgs, chSessionId, chCalls>>
  /\ UNCHANGED <<etClient, etRetries, etCallLog>>
  /\ UNCHANGED <<cfgVars, srvVars, sseClientVars, handles, sessVars, llm, elicit>>

\* variant that gives the reply back when the execution failed
ChatToolDone_replyOnError ==
  /\ chPc = "executing"
  /\ etPc = "done"
  /\ chPc' = "done"
  /\ chResult' = IF etOutcome.kind = "returned"
                 THEN [kind |-> "toolResult", detail |-> etOutcome.result.content]
                 ELSE [kind |-> "reply", detail |-> "llmResponse"]
  /\ UNCHANGED <<chReply, chTool, chArgs, chSessionId, chServer, chCalls>>
  /\ UNCHANGED notChatVars

\* executeTool has returned or thrown: the text processLLMResponse returns
ChatToolDone ==
  /\ chPc = "executing"
  /\ etPc = "done"
  /\ chPc' = "done"
  /\ chResult' = IF etOutcome.kind = "returned"
                 THEN [kind |-> "toolResult", detail |-> etOutcome.result.content]
                 ELSE [kind |-> "toolError", detail |-> etOutcome.error]
  /\ UNCHANGED <<chReply, chTool, chArgs, chSessionId, chServer, chCalls>>
  /\ UNCHANGED notChatVars

(***************************************************************************)
(* McpServer: the handle of one provider                                   *)
(***************************************************************************)
MaxInits == 2      \* initialize() calls made on one handle at most
MaxCleanups == 3   \* cleanup() calls counted on one handle at most

\* the pass-through calls of a handle
Methods == {"getPrompt", "readResource", "listTools", "executeTool"}
NoCall == [method |-> "none", outcome |-> "none", connected |-> FALSE,
           closedBefore |-> FALSE]

\* a handle as its constructor leaves it: client and transport null, the two
\* caches empty.  client and transport hold 0 for null, else the number of
\* the initialize() call that created the object; prompts and resources hold
\* 0 for the empty list, else the number of the initialize() call that
\* fetched the list
NewHandle ==
  [client |-> 0, transport |-> 0, connected |-> FALSE,
   prompts |-> 0, resources |-> 0,
   pc |-> "idle", ret |-> "none", inits |-> 0, init |-> "none",
   cleanups |-> 0, closed |-> FALSE,
   clientCloses |-> [g \in 1..MaxInits |-> 0],
   transportCloses |-> [g \in 1..MaxInits |-> 0],
   connectFailed |-> FALSE, promptsFailed |-> FALSE,
   resourcesFailed |-> FALSE, closeRejected |-> FALSE,
   last |-> NoCall]

HandlesNew == handles = [s \in Servers |-> NewHandle]

\* cleanup() returns; when the catch block of initialize() awaited it,
\* initialize() rethrows the connection error
cleanupReturns(h, ret) ==
  [h EXCEPT !.pc = "idle", !.ret = "none",
            !.init = IF ret = "initialize" THEN "threw" ELSE @]

\* the second half of cleanup(): close the transport if there is one
closeTransport(h, ret) ==
  IF h.transport # 0
  THEN [h EXCEPT !.pc = "closingTransport", !.ret = ret,
                 !.transportCloses[h.transport] = @ + 1]
  ELSE cleanupReturns(h, ret)

\* cleanup(), from its call to its first await: close the client if there is
\* one, else go on to the transport
cleanup(h, ret) ==
  IF h.client # 0
  THEN [h EXCEPT !.pc = "closingClient", !.ret = ret,
                 !.clientCloses[h.client] = @ + 1]
  ELSE closeTransport(h, ret)

\* initialize(), up to await this.client.connect(): a new transport and a
\* new client are stored and the elicitation handler is set
Initialize(s) ==
  /\ handles[s].pc = "idle"
  /\ handles[s].inits < MaxInits
  /\ handles' = [handles EXCEPT ![s] =
       [@ EXCEPT !.inits = @ + 1,
                 !.transport = handles[s].inits + 1,
                 !.client = handles[s].inits + 1,
                 !.init = "running",
                 !.connectFailed = FALSE,
                 !.promptsFailed = FALSE,
                 !.resourcesFailed = FALSE,
                 !.pc = "connecting"]]
  /\ UNCHANGED notHandleVars

\* client.connect() resolves: capabilities are read, listPrompts is awaited
ConnectResolves(s) ==
  /\ handles[s].pc = "connecting"
  /\ handles' = [handles EXCEPT ![s] =
       [@ EXCEPT !.connected = TRUE, !.pc = "listingPrompts"]]
  /\ UNCHANGED notHandleVars

\* variant of the catch block of initialize() that rethrows without cleanup
ConnectRejects_noCleanup(s) ==
  /\ handles[s].pc = "connecting"
  /\ handles' = [handles EXCEPT ![s] =
       [@ EXCEPT !.pc = "idle", !.init = "threw", !.connectFailed = TRUE]]
  /\ UNCHANGED notHandleVars

\* client.connect() rejects: the catch block logs and awaits this.cleanup()
ConnectRejects(s) ==
  /\ handles[s].pc = "connecting"
  /\ handles' = [handles EXCEPT ![s] =
       cleanup([@ EXCEPT !.connectFailed = TRUE], "initialize")]
  /\ UNCHANGED notHandleVars

\* client.listPrompts() settles: the list is cached, or a warning is logged
ListPromptsSettles(s) ==
  /\ handles[s].pc = "listingPrompts"
  /\ \E outcome \in {"list", "emptyList", "throws"} :
       handles' = [handles EXCEPT ![s] =
         [@ EXCEPT !.prompts = IF outcome = "list" THEN handles[s].inits
                               ELSE IF outcome = "emptyList" THEN 0
                               ELSE @,
                   !.promptsFailed = (outcome = "throws"),
                   !.pc = "listingResources"]]
  /\ UNCHANGED notHandleVars

\* client.listResources() settles, then initialize() logs and returns
ListResourcesSettles(s) ==
  /\ handles[s].pc = "listingResources"
  /\ \E outcome \in {"list", "emptyList", "throws"} :
       handles' = [handles EXCEPT ![s] =
         [@ EXCEPT !.resources = IF outcome = "list" THEN handles[s].inits
                                 ELSE IF outcome = "emptyList" THEN 0
                                 ELSE @,
                   !.resourcesFailed = (outcome = "throws"),
                   !.pc = "idle",
                   !.init = "returned"]]
  /\ UNCHANGED notHandleVars

\* cleanup() is called on a handle that has no call in progress
Cleanup(s) ==
  /\ handles[s].pc = "idle"
  /\ handles[s].cleanups < MaxCleanups
  /\ handles' = [handles EXCEPT ![s] =
       cleanup([@ EXCEPT !.cleanups = @ + 1], "caller")]
  /\ UNCHANGED notHandleVars

\* variant of the finally block that leaves this.client set
ClientCloseSettles_keepClient(s) ==
  /\ handles[s].pc = "closingClient"
  /\ \E rejected \in BOOLEAN :
       handles' = [handles EXCEPT ![s] =
         closeTransport([@ EXCEPT !.connected = FALSE,
                                  !.closeRejected = @ \/ rejected],
                        handles[s].ret)]
  /\ UNCHANGED notHandleVars

\* client.close() resolves or rejects (a rejection is logged): finally the
\* client is set to null, then the transport is closed if there is one
ClientCloseSettles(s) ==
  /\ handles[s].pc = "closingClient"
  /\ \E rejected \in BOOLEAN :
       handles' = [handles EXCEPT ![s] =
         closeTransport([@ EXCEPT !.client = 0, !.connected = FALSE,
                                  !.closed = @ \/ handles[s].connected,
                                  !.closeRejected = @ \/ rejected],
                        handles[s].ret)]
  /\ UNCHANGED notHandleVars

\* transport.close() resolves or rejects (a rejection is logged): finally
\* the transport is set to null and cleanup() returns
TransportCloseSettles(s) ==
  /\ handles[s].pc = "closingTransport"
  /\ \E rejected \in BOOLEAN :
       handles' = [handles EXCEPT ![s] =
         cleanupReturns([@ EXCEPT !.transport = 0,
                                  !.closeRejected = @ \/ rejected],
                        handles[s].ret)]
  /\ UNCHANGED notHandleVars

\* if (!this.client) throw new Error(`Server ${this.name} not initialized`)
callOutcome(h) == IF h.client = 0 THEN "NotInitialized" ELSE "forwarded"

\* getPrompt, readResource, listTools or executeTool is called on a handle
\* that has no call in progress
HandleCall(s) ==
  /\ handles[s].pc = "idle"
  /\ \E m \in Methods :
       handles' = [handles EXCEPT ![s].last =
         [method |-> m, outcome |-> callOutcome(handles[s]),
          connected |-> handles[s].connected,
          closedBefore |-> handles[s].closed]]
  /\ UNCHANGED notHandleVars

\* initialize() on a handle that was never initialized before
FirstInitialize(s) ==
  /\ handles[s].inits = 0
  /\ Initialize(s)

(***************************************************************************)
(* ChatSession.start: initialization, the chat loop, cleanupServers        *)
(***************************************************************************)
MaxInputs == 2     \* promptForInput calls of one session at most

\* what promptForInput gives: nothing, quit or exit, a question, one of the
\* two listing commands, a /name or @name command, or a throw (with or
\* without EOF in its message)
CommandNames == {"known", "unknown"}
Inputs == {"empty", "quit", "text", "throwsEOF", "throws",
           "/prompts", "@resources", "/known", "/unknown", "@known", "@unknown"}

\* trimmedInput.substring(1) of a command
commandName(input) ==
  IF input \in {"/known", "@known"} THEN "known" ELSE "unknown"

\* the last / or @ command and how it ended
\* (at: the number of the promptForInput call that read it)
NoCmd == [kind |-> "none", name |-> "none", server |-> 0, outcome |-> "none",
          iters |-> 0, at |-> 0]

Msg(role, content) == [role |-> role, content |-> content]

\* the replies the model gives in a session: prose, a fenced call of
\* network-dnsLookup, a call of network-ping, a call of an unknown tool
SessionReplies ==
  {[fence |-> "none", body |-> NotJson],
   [fence |-> "json", body |-> Body("object", "network-dnsLookup", "object")],
   [fence |-> "none", body |-> Body("object", "network-ping", "object")],
   [fence |-> "none", body |-> Body("object", "unknown-tool", "emptyObject")]}

\* no session is running in this specification
SessionOff ==
  /\ sPc = "off"
  /\ sIdx = 1
  /\ messages = <<>>
  /\ sInputs = 0
  /\ sLlmCalls = 0
  /\ sEnd = "none"
  /\ sCleanupRuns = 0
  /\ sSseClosed = {}
  /\ sCmd = NoCmd
  /\ allTools = <<>>

\* start(): await server.initialize() for the next provider
SessInitialize ==
  /\ sPc = "initialize"
  /\ handles[sIdx].init = "none"
  /\ Initialize(sIdx)

\* the provider answers listPrompts and listResources with its lists (what
\* the caches hold plays no part in start())
SessListPromptsSettles(s) ==
  /\ ListPromptsSettles(s)
  /\ handles'[s].prompts = handles[s].inits

SessListResourcesSettles(s) ==
  /\ ListResourcesSettles(s)
  /\ handles'[s].resources = handles[s].inits

\* server.initialize() has returned: the next provider, or collect the tools
SessInitReturned ==
  /\ sPc = "initialize"
  /\ handles[sIdx].init = "returned"
  /\ IF sIdx < NumServers
     THEN /\ sIdx' = sIdx + 1
          /\ sPc' = sPc
     ELSE /\ sIdx' = 1
          /\ sPc' = "collect"
  /\ UNCHANGED <<messages, sInputs, sLlmCalls, sEnd, sCleanupRuns, sSseClosed, sCmd, allTools>>
  /\ UNCHANGED notSessVars

\* variant of the catch block that logs and goes on to the next provider
SessInitThrew_goOn ==
  /\ sPc = "initialize"
  /\ handles[sIdx].init = "threw"
  /\ IF sIdx < NumServers
     THEN /\ sIdx' = sIdx + 1
          /\ sPc' = sPc
     ELSE /\ sIdx' = 1
          /\ sPc' = "collect"
  /\ sEnd' = "initFailure"
  /\ UNCHANGED <<messages, sInputs, sLlmCalls, sCleanupRuns, sSseClosed, sCmd, allTools>>
  /\ UNCHANGED notSessVars

\* server.initialize() has thrown: log, await this.cleanupServers(), return
SessInitThrew ==
  /\ sPc = "initialize"
  /\ handles[sIdx].init = "threw"
  /\ sPc' = "cleanupSse"
  /\ sEnd' = "initFailure"
  /\ UNCHANGED <<sIdx, messages, sInputs, sLlmCalls, sCleanupRuns, sSseClosed, sCmd, allTools>>
  /\ UNCHANGED notSessVars

\* the lists of tool names server.listTools() may return while the tools
\* are collected
CollectNames == {"network-ping", "network-traceroute", "network-geoiplookup"}
NoDuplicateNames(tools) ==
  \A i, j \in 1..Len(tools) : tools[i] = tools[j] => i = j
\* (one provider registers a tool name once)
CollectLists ==
  {l \in SeqsUpTo(CollectNames, Cardinality(CollectNames)) : NoDuplicateNames(l)}

\* collect all tools: server.listTools() of the next provider returns and
\* its tools are pushed on allTools, or it throws, which ends start()
\* through its finally block
SessCollect ==
  /\ sPc = "collect"
  /\ \E ok \in BOOLEAN :
       IF ok
       THEN /\ \E tools \in CollectLists : allTools' = allTools \o tools
            /\ IF sIdx < NumServers
               THEN /\ sIdx' = sIdx + 1
                    /\ UNCHANGED <<sPc, messages, sEnd>>
               ELSE /\ sIdx' = sIdx
                    /\ sPc' = "prompt"
                    /\ messages' = <<Msg("system", "systemMessage")>>
                    /\ sEnd' = sEnd
       ELSE /\ sPc' = "cleanupSse"
            /\ sEnd' = "exception"
            /\ UNCHANGED <<sIdx, messages, allTools>>
  /\ UNCHANGED <<sInputs, sLlmCalls, sCleanupRuns, sSseClosed, sCmd>>
  /\ UNCHANGED notSessVars

\* prompts.find((p) => p.name === promptName) on the cache of a handle: a
\* cached list holds the prompt "known"
hasPrompt(h, name) == h.prompts # 0 /\ name = "known"

\* resources.find(...) on the cache of a handle, by name or URI
hasResource(h, name) == h.resources # 0 /\ name = "known"

\* the loop over this.servers that breaks at the first match: the index of
\* the provider found, 0 when there is none
firstServer(kind, name) ==
  LET has(h) == IF kind = "prompt" THEN hasPrompt(h, name)
                ELSE hasResource(h, name)
  IN  IF \E s \in Servers : has(handles[s])
      THEN CHOOSE s \in Servers :
             /\ has(handles[s])
             /\ \A r \in Servers : has(handles[r]) => s <= r
      ELSE 0

\* variant that records the not-found notice in the history
SessReadInput_noticeInHistory ==
  /\ sPc = "prompt"
  /\ sInputs < MaxInputs
  /\ sInputs' = sInputs + 1
  /\ \E input \in Inputs :
       CASE input \in {"empty", "throws"} ->
              UNCHANGED <<sPc, messages, sEnd, sCmd>>
         [] input = "quit" ->
              /\ sPc' = "cleanupSse"
              /\ sEnd' = "quit"
              /\ UNCHANGED <<messages, sCmd>>
         [] input = "throwsEOF" ->
              /\ sPc' = "cleanupSse"
              /\ sEnd' = "eof"
              /\ UNCHANGED <<messages, sCmd>>
         [] input = "text" ->
              /\ sPc' = "llm"
              /\ messages' = Append(messages, Msg("user", "userInput"))
              /\ UNCHANGED <<sEnd, sCmd>>
         [] input \in {"/prompts", "@resources"} ->
              /\ sCmd' = [NoCmd EXCEPT !.kind = "list", !.outcome = "listed",
                                      !.at = sInputs + 1]
              /\ UNCHANGED <<sPc, messages, sEnd>>
         [] input \in {"/known", "/unknown"} ->
              LET found == firstServer("prompt", commandName(input))
                  cmd == [NoCmd EXCEPT !.kind = "prompt",
                                       !.name = commandName(input),
                                       !.server = found,
                                       !.at = sInputs + 1]
              IN  /\ IF found = 0
                     THEN /\ sCmd' = [cmd EXCEPT !.outcome = "notFound"]
                          /\ sPc' = sPc
                          /\ messages' = Append(messages, Msg("system", "notFound"))
                     ELSE \E required \in {"given", "missing"} :
                            IF required = "missing"
                            THEN /\ sCmd' = [cmd EXCEPT !.outcome = "argumentRequired"]
                                 /\ sPc' = sPc
                            ELSE /\ sCmd' = cmd
                                 /\ sPc' = "wfGetPrompt"
                  /\ found # 0 => messages' = messages
                  /\ sEnd' = sEnd
         [] input \in {"@known", "@unknown"} ->
              LET found == firstServer("resource", commandName(input))
                  cmd == [NoCmd EXCEPT !.kind = "resource",
                                       !.name = commandName(input),
                                       !.server = found,
                                       !.at = sInputs + 1]
              IN  /\ IF found = 0
                     THEN /\ sCmd' = [cmd EXCEPT !.outcome = "notFound"]
                          /\ sPc' = sPc
                          /\ messages' = Append(messages, Msg("system", "notFound"))
                     ELSE /\ sCmd' = cmd
                          /\ sPc' = "resRead"
                          /\ messages' = messages
                  /\ sEnd' = sEnd
  /\ UNCHANGED <<sIdx, sLlmCalls, sCleanupRuns, sSseClosed, allTools>>
  /\ UNCHANGED notSessVars

\* the top of the chat loop: promptForInput and what the input leads to,
\* up to the first await; for a /name command that is handlePromptCommand
\* up to await foundServer.getPrompt(...), for an @name command
\* handleResourceCommand up to await foundServer.readResource(...)
SessReadInput ==
  /\ sPc = "prompt"
  /\ sInputs < MaxInputs
  /\ sInputs' = sInputs + 1
  /\ \E input \in Inputs :
       CASE input \in {"empty", "throws"} ->
              UNCHANGED <<sPc, messages, sEnd, sCmd>>
         [] input = "quit" ->
              /\ sPc' = "cleanupSse"
              /\ sEnd' = "quit"
              /\ UNCHANGED <<messages, sCmd>>
         [] input = "throwsEOF" ->
              /\ sPc' = "cleanupSse"
              /\ sEnd' = "eof"
              /\ UNCHANGED <<messages, sCmd>>
         [] input = "text" ->
              /\ sPc' = "llm"
              /\ messages' = Append(messages, Msg("user", "userInput"))
              /\ UNCHANGED <<sEnd, sCmd>>
         [] input \in {"/prompts", "@resources"} ->
              /\ sCmd' = [NoCmd EXCEPT !.kind = "list", !.outcome = "listed",
                                      !.at = sInputs + 1]
              /\ UNCHANGED <<sPc, messages, sEnd>>
         [] input \in {"/known", "/unknown"} ->
              LET found == firstServer("prompt", commandName(input))
                  cmd == [NoCmd EXCEPT !.kind = "prompt",
                                       !.name = commandName(input),
                                       !.server = found,
                                       !.at = sInputs + 1]
              IN  /\ IF found = 0
                     THEN /\ sCmd' = [cmd EXCEPT !.outcome = "notFound"]
                          /\ sPc' = sPc
                     ELSE \E required \in {"given", "missing"} :
                            IF required = "missing"
                            THEN /\ sCmd' = [cmd EXCEPT !.outcome = "argumentRequired"]
                                 /\ sPc' = sPc
                            ELSE /\ sCmd' = cmd
                                 /\ sPc' = "wfGetPrompt"
                  /\ UNCHANGED <<messages, sEnd>>
         [] input \in {"@known", "@unknown"} ->
              LET found == firstServer("resource", commandName(input))
                  cmd == [NoCmd EXCEPT !.kind = "resource",
                                       !.name = commandName(input),
                                       !.server = found,
                                       !.at = sInputs + 1]
              IN  /\ IF found = 0
                     THEN /\ sCmd' = [cmd EXCEPT !.outcome = "notFound"]
                          /\ sPc' = sPc
                     ELSE /\ sCmd' = cmd
                          /\ sPc' = "resRead"
                  /\ UNCHANGED <<messages, sEnd>>
  /\ UNCHANGED <<sIdx, sLlmCalls, sCleanupRuns, sSseClosed, allTools>>
  /\ UNCHANGED notSessVars

\* llmClient.getResponse(messages) returns a text (getResponse catches every
\* error of a completion and returns a text about it); the text goes to
\* processLLMResponse
SessLlmResponds ==
  /\ sPc = "llm"
  /\ sLlmCalls' = sLlmCalls + 1
  /\ sPc' = "processing"
  /\ chPc' = "idle"
  /\ UNCHANGED <<sIdx, messages, sInputs, sEnd, sCleanupRuns, sSseClosed, sCmd, allTools>>
  /\ UNCHANGED <<chReply, chTool, chArgs, chSessionId, chServer, chCalls, chResult>>
  /\ UNCHANGED <<cfgVars, etVars, srvVars, sseClientVars, handles, llm, elicit>>

\* processLLMResponse is entered with one of the session's replies
SessReplyProcessed ==
  /\ sPc = "processing"
  /\ ProcessLLMResponse
  /\ chReply' \in SessionReplies

\* variant that appends the assistant reply only, whatever was returned
SessTurnProcessed_replyOnly ==
  /\ sPc = "processing"
  /\ chPc = "done"
  /\ messages' = Append(messages, Msg("assistant", "llmResponse"))
  /\ sPc' = "prompt"
  /\ chPc' = "off"
  /\ chReply' = [fence |-> "none", body |-> NotJson]
  /\ chTool' = "absent"
  /\ chArgs' = NoArgs
  /\ chSessionId' = "none"
  /\ chServer' = 1
  /\ chCalls' = <<>>
  /\ chResult' = NoChatResult
  /\ etAttempt' = 0
  /\ etPc' = "idle"
  /\ etCallLog' = <<>>
  /\ etOutcome' = NoOutcome
  /\ UNCHANGED <<etClient, etRetries>>
  /\ UNCHANGED <<sIdx, sInputs, sLlmCalls, sEnd, sCleanupRuns, sSseClosed, sCmd, allTools>>
  /\ UNCHANGED <<cfgVars, srvVars, sseClientVars, handles, llm, elicit>>

\* variant of the turn that does not await processLLMResponse: it goes back
\* to promptForInput while the executeTool call is in flight
SessTurnProcessed_noAwait ==
  /\ sPc = "processing"
  /\ chPc \in {"executing", "done"}
  /\ messages' = Append(messages, Msg("assistant", "llmResponse"))
  /\ sPc' = "prompt"
  /\ UNCHANGED <<sIdx, sInputs, sLlmCalls, sEnd, sCleanupRuns, sSseClosed, sCmd,
                 allTools>>
  /\ UNCHANGED notSessVars

\* variant that appends the result before the assistant reply
SessTurnProcessed_resultFirst ==
  /\ sPc = "processing"
  /\ chPc = "done"
  /\ IF chResult.kind # "reply"
     THEN /\ messages' = messages \o <<Msg("system", chResult.kind),
                                       Msg("assistant", "llmResponse")>>
          /\ sPc' = "followUp"
     ELSE /\ messages' = Append(messages, Msg("assistant", "llmResponse"))
          /\ sPc' = "prompt"
  /\ chPc' = "off"
  /\ chReply' = [fence |-> "none", body |-> NotJson]
  /\ chTool' = "absent"
  /\ chArgs' = NoArgs
  /\ chSessionId' = "none"
  /\ chServer' = 1
  /\ chCalls' = <<>>
  /\ chResult' = NoChatResult
  /\ etAttempt' = 0
  /\ etPc' = "idle"
  /\ etCallLog' = <<>>
  /\ etOutcome' = NoOutcome
  /\ UNCHANGED <<etClient, etRetries>>
  /\ UNCHANGED <<sIdx, sInputs, sLlmCalls, sEnd, sCleanupRuns, sSseClosed, sCmd, allTools>>
  /\ UNCHANGED <<cfgVars, srvVars, sseClientVars, handles, llm, elicit>>

\* processLLMResponse has returned: a result other than the reply is
\* appended after the assistant reply as a system message and a follow-up
\* completion is requested; else the assistant reply alone is appended
SessTurnProcessed ==
  /\ sPc = "processing"
  /\ chPc = "done"
  /\ IF chResult.kind # "reply"
     THEN /\ messages' = messages \o <<Msg("assistant", "llmResponse"),
                                       Msg("system", chResult.kind)>>
          /\ sPc' = "followUp"
     ELSE /\ messages' = Append(messages, Msg("assistant", "llmResponse"))
          /\ sPc' = "prompt"
  /\ chPc' = "off"
  /\ chReply' = [fence |-> "none", body |-> NotJson]
  /\ chTool' = "absent"
  /\ chArgs' = NoArgs
  /\ chSessionId' = "none"
  /\ chServer' = 1
  /\ chCalls' = <<>>
  /\ chResult' = NoChatResult
  /\ etAttempt' = 0
  /\ etPc' = "idle"
  /\ etCallLog' = <<>>
  /\ etOutcome' = NoOutcome
  /\ UNCHANGED <<etClient, etRetries>>
  /\ UNCHANGED <<sIdx, sInputs, sLlmCalls, sEnd, sCleanupRuns, sSseClosed, sCmd, allTools>>
  /\ UNCHANGED <<cfgVars, srvVars, sseClientVars, handles, llm, elicit>>

\* what the history keeps of the follow-up text: whether it has the form of
\* a tool call
FinalContents == {"finalResponse", "finalToolCall"}
finalContent(reply) ==
  IF isToolCall(stripFence(reply)) THEN "finalToolCall" ELSE "finalResponse"

\* variant that hands a follow-up of the form of a tool call to
\* processLLMResponse
SessFollowUp_dispatch ==
  /\ sPc = "followUp"
  /\ sLlmCalls' = sLlmCalls + 1
  /\ \E reply \in SessionReplies :
       IF isToolCall(stripFence(reply))
       THEN /\ messages' = messages
            /\ sPc' = "processing"
            /\ chPc' = "idle"
       ELSE /\ messages' = Append(messages, Msg("assistant", finalContent(reply)))
            /\ sPc' = "prompt"
            /\ chPc' = chPc
  /\ UNCHANGED <<sIdx, sInputs, sEnd, sCleanupRuns, sSseClosed, sCmd, allTools>>
  /\ UNCHANGED <<chReply, chTool, chArgs, chSessionId, chServer, chCalls, chResult>>
  /\ UNCHANGED <<cfgVars, etVars, srvVars, sseClientVars, handles, llm, elicit>>

\* the follow-up llmClient.getResponse(messages) returns its text, which is
\* pushed as it is
SessFollowUp ==
  /\ sPc = "followUp"
  /\ sLlmCalls' = sLlmCalls + 1
  /\ \E reply \in SessionReplies :
       messages' = Append(messages, Msg("assistant", finalContent(reply)))
  /\ sPc' = "prompt"
  /\ UNCHANGED <<sIdx, sInputs, sEnd, sCleanupRuns, sSseClosed, sCmd, allTools>>
  /\ UNCHANGED notSessVars

(***************************************************************************)
(* ChatSession.handlePromptCommand and handleResourceCommand               *)
(***************************************************************************)
MaxIterations == 2   \* iterations of one prompt workflow explored

\* what the loop over promptResult.messages pushes: nothing when no message
\* is a text of the user or the assistant, else those texts in order
PromptPushes ==
  {<<>>,
   <<Msg("user", "promptMessage")>>,
   <<Msg("user", "promptMessage"), Msg("assistant", "promptMessage")>>}

\* the record a handle keeps of a pass-through call
passThrough(h, m) ==
  [method |-> m, outcome |-> callOutcome(h), connected |-> h.connected,
   closedBefore |-> h.closed]

\* processLLMResponse has returned to its caller: its locals are gone
TurnReset ==
  /\ chPc' = "off"
  /\ chReply' = [fence |-> "none", body |-> NotJson]
  /\ chTool' = "absent"
  /\ chArgs' = NoArgs
  /\ chSessionId' = "none"
  /\ chServer' = 1
  /\ chCalls' = <<>>
  /\ chResult' = NoChatResult
  /\ etAttempt' = 0
  /\ etPc' = "idle"
  /\ etCallLog' = <<>>
  /\ etOutcome' = NoOutcome
  /\ UNCHANGED <<etClient, etRetries>>

\* variant that puts the prompt messages in front of the conversation
SessGetPromptSettles_promptFirst ==
  /\ sPc = "wfGetPrompt"
  /\ handles' = [handles EXCEPT ![sCmd.server].last =
                   passThrough(handles[sCmd.server], "getPrompt")]
  /\ \E outcome \in {"throws", "noMessages", "messages"} :
       /\ handles[sCmd.server].client = 0 => outcome = "throws"
       /\ CASE outcome = "throws" ->
                 /\ sCmd' = [sCmd EXCEPT !.outcome = "error"]
                 /\ sPc' = "prompt"
                 /\ messages' = messages
            [] outcome = "noMessages" ->
                 /\ sCmd' = [sCmd EXCEPT !.outcome = "noMessages"]
                 /\ sPc' = "prompt"
                 /\ messages' = messages
            [] outcome = "messages" ->
                 /\ \E pushes \in PromptPushes : messages' = pushes \o messages
                 /\ sPc' = "wfLlm"
                 /\ sCmd' = sCmd
  /\ UNCHANGED <<sIdx, sInputs, sLlmCalls, sEnd, sCleanupRuns, sSseClosed, allTools>>
  /\ UNCHANGED <<cfgVars, etVars, srvVars, sseClientVars, chatVars, llm, elicit>>

\* await foundServer.getPrompt(promptName, promptArgs) settles: a throw goes
\* to the catch block of handlePromptCommand; a result without messages ends
\* the command; else the texts are pushed and the workflow loop starts
SessGetPromptSettles ==
  /\ sPc = "wfGetPrompt"
  /\ handles' = [handles EXCEPT ![sCmd.server].last =
                   passThrough(handles[sCmd.server], "getPrompt")]
  /\ \E outcome \in {"throws", "noMessages", "messages"} :
       /\ handles[sCmd.server].client = 0 => outcome = "throws"
       /\ CASE outcome = "throws" ->
                 /\ sCmd' = [sCmd EXCEPT !.outcome = "error"]
                 /\ sPc' = "prompt"
                 /\ messages' = messages
            [] outcome = "noMessages" ->
                 /\ sCmd' = [sCmd EXCEPT !.outcome = "noMessages"]
                 /\ sPc' = "prompt"
                 /\ messages' = messages
            [] outcome = "messages" ->
                 /\ \E pushes \in PromptPushes : messages' = messages \o pushes
                 /\ sPc' = "wfLlm"
                 /\ sCmd' = sCmd
  /\ UNCHANGED <<sIdx, sInputs, sLlmCalls, sEnd, sCleanupRuns, sSseClosed, allTools>>
  /\ UNCHANGED <<cfgVars, etVars, srvVars, sseClientVars, chatVars, llm, elicit>>

\* the workflow loop: await this.llmClient.getResponse(messages) returns its
\* text, which goes to processLLMResponse
SessWfLlmResponds ==
  /\ sPc = "wfLlm"
  /\ sCmd.iters < MaxIterations
  /\ sLlmCalls' = sLlmCalls + 1
  /\ sCmd' = [sCmd EXCEPT !.iters = @ + 1]
  /\ sPc' = "wfProcessing"
  /\ chPc' = "idle"
  /\ UNCHANGED <<sIdx, messages, sInputs, sEnd, sCleanupRuns, sSseClosed, allTools>>
  /\ UNCHANGED <<chReply, chTool, chArgs, chSessionId, chServer, chCalls, chResult>>
  /\ UNCHANGED <<cfgVars, etVars, srvVars, sseClientVars, handles, llm, elicit>>

\* processLLMResponse is entered from the workflow loop
SessWfReplyProcessed ==
  /\ sPc = "wfProcessing"
  /\ ProcessLLMResponse
  /\ chReply' \in SessionReplies

\* variant of the workflow loop that pushes the result without the reply
SessWfTurnProcessed_resultOnly ==
  /\ sPc = "wfProcessing"
  /\ chPc = "done"
  /\ IF chResult.kind # "reply"
     THEN /\ messages' = Append(messages, Msg("system", chResult.kind))
          /\ sPc' = "wfLlm"
          /\ sCmd' = sCmd
     ELSE /\ messages' = Append(messages, Msg("assistant", "llmResponse"))
          /\ sPc' = "prompt"
          /\ sCmd' = [sCmd EXCEPT !.outcome = "done"]
  /\ TurnReset
  /\ UNCHANGED <<sIdx, sInputs, sLlmCalls, sEnd, sCleanupRuns, sSseClosed, allTools>>
  /\ UNCHANGED <<cfgVars, srvVars, sseClientVars, handles, llm, elicit>>

\* variant of the workflow loop that ends after one dispatched reply
SessWfTurnProcessed_oneShot ==
  /\ sPc = "wfProcessing"
  /\ chPc = "done"
  /\ IF chResult.kind # "reply"
     THEN messages' = messages \o <<Msg("assistant", "llmResponse"),
                                    Msg("system", chResult.kind)>>
     ELSE messages' = Append(messages, Msg("assistant", "llmResponse"))
  /\ sPc' = "prompt"
  /\ sCmd' = [sCmd EXCEPT !.outcome = "done"]
  /\ TurnReset
  /\ UNCHANGED <<sIdx, sInputs, sLlmCalls, sEnd, sCleanupRuns, sSseClosed, allTools>>
  /\ UNCHANGED <<cfgVars, srvVars, sseClientVars, handles, llm, elicit>>

\* processLLMResponse has returned to the workflow loop: a result other than
\* the reply is pushed after the assistant reply and the loop goes round;
\* else the assistant reply alone is pushed and the loop ends
SessWfTurnProcessed ==
  /\ sPc = "wfProcessing"
  /\ chPc = "done"
  /\ IF chResult.kind # "reply"
     THEN /\ messages' = messages \o <<Msg("assistant", "llmResponse"),
                                       Msg("system", chResult.kind)>>
          /\ sPc' = "wfLlm"
          /\ sCmd' = sCmd
     ELSE /\ messages' = Append(messages, Msg("assistant", "llmResponse"))
          /\ sPc' = "prompt"
          /\ sCmd' = [sCmd EXCEPT !.outcome = "done"]
  /\ TurnReset
  /\ UNCHANGED <<sIdx, sInputs, sLlmCalls, sEnd, sCleanupRuns, sSseClosed, allTools>>
  /\ UNCHANGED <<cfgVars, srvVars, sseClientVars, handles, llm, elicit>>

\* variant that pushes the text it has shown without asking
SessReadResourceSettles_alwaysAttach ==
  /\ sPc = "resRead"
  /\ handles' = [handles EXCEPT ![sCmd.server].last =
                   passThrough(handles[sCmd.server], "readResource")]
  /\ \E outcome \in {"throws", "noContent", "attach", "doNotAttach"} :
       /\ handles[sCmd.server].client = 0 => outcome = "throws"
       /\ messages' = IF outcome \in {"attach", "doNotAttach"}
                      THEN Append(messages, Msg("system", "resource"))
                      ELSE messages
       /\ sCmd' = [sCmd EXCEPT !.outcome =
                     CASE outcome = "throws" -> "error"
                       [] outcome = "noContent" -> "noContent"
                       [] outcome = "attach" -> "attached"
                       [] outcome = "doNotAttach" -> "notAttached"]
  /\ sPc' = "prompt"
  /\ UNCHANGED <<sIdx, sInputs, sLlmCalls, sEnd, sCleanupRuns, sSseClosed, allTools>>
  /\ UNCHANGED <<cfgVars, etVars, srvVars, sseClientVars, chatVars, llm, elicit>>

\* await foundServer.readResource(uri) settles: a throw goes to the catch
\* block of handleResourceCommand; without contents a notice is shown; else
\* the text is shown and, when the user says so, pushed as a system message
SessReadResourceSettles ==
  /\ sPc = "resRead"
  /\ handles' = [handles EXCEPT ![sCmd.server].last =
                   passThrough(handles[sCmd.server], "readResource")]
  /\ \E outcome \in {"throws", "noContent", "attach", "doNotAttach"} :
       /\ handles[sCmd.server].client = 0 => outcome = "throws"
       /\ messages' = IF outcome = "attach"
                      THEN Append(messages, Msg("system", "resource"))
                      ELSE messages
       /\ sCmd' = [sCmd EXCEPT !.outcome =
                     CASE outcome = "throws" -> "error"
                       [] outcome = "noContent" -> "noContent"
                       [] outcome = "attach" -> "attached"
                       [] outcome = "doNotAttach" -> "notAttached"]
  /\ sPc' = "prompt"
  /\ UNCHANGED <<sIdx, sInputs, sLlmCalls, sEnd, sCleanupRuns, sSseClosed, allTools>>
  /\ UNCHANGED <<cfgVars, etVars, srvVars, sseClientVars, chatVars, llm, elicit>>

\* cleanupServers(): await this.sseManager.cleanup(): close() is called on
\* every registered EventSource, a throw is logged, the registry is cleared
SessCleanupSse ==
  /\ sPc = "cleanupSse"
  /\ \E threw \in SUBSET activeSSEConnections :
       esState' = [c \in SessionIds |->
                     IF c \in activeSSEConnections \ threw THEN "closed"
                     ELSE esState[c]]
  /\ sSseClosed' = sSseClosed \cup activeSSEConnections
  /\ activeSSEConnections' = {}
  /\ sPc' = "cleanupServers"
  /\ UNCHANGED <<sIdx, messages, sInputs, sLlmCalls, sEnd, sCleanupRuns, sCmd, allTools>>
  /\ UNCHANGED <<sseReceived, srvVars, cfgVars, etVars, chatVars, handles, llm, elicit>>

\* variant of cleanupServers() that stops at the first provider
SessCleanupServers_firstOnly ==
  /\ sPc = "cleanupServers"
  /\ handles' = [s \in Servers |->
                   IF s = 1
                   THEN cleanup([handles[s] EXCEPT !.cleanups = @ + 1], "caller")
                   ELSE handles[s]]
  /\ sPc' = "cleanupSettling"
  /\ UNCHANGED <<sIdx, messages, sInputs, sLlmCalls, sEnd, sCleanupRuns,
                 sSseClosed, sCmd, allTools>>
  /\ UNCHANGED <<cfgVars, etVars, srvVars, sseClientVars, chatVars, llm, elicit>>

\* this.servers.map((server) => server.cleanup()): cleanup() is called on
\* every provider, each running up to its first await
SessCleanupServers ==
  /\ sPc = "cleanupServers"
  /\ handles' = [s \in Servers |->
                   cleanup([handles[s] EXCEPT !.cleanups = @ + 1], "caller")]
  /\ sPc' = "cleanupSettling"
  /\ UNCHANGED <<sIdx, messages, sInputs, sLlmCalls, sEnd, sCleanupRuns,
                 sSseClosed, sCmd, allTools>>
  /\ UNCHANGED <<cfgVars, etVars, srvVars, sseClientVars, chatVars, llm, elicit>>

\* await Promise.allSettled(cleanupPromises) is over: cleanupServers()
\* returns; after the catch block of the initialization loop the return
\* runs the finally block, which calls cleanupServers() once more
SessCleanupSettled ==
  /\ sPc = "cleanupSettling"
  /\ \A s \in Servers : handles[s].pc = "idle"
  /\ sCleanupRuns' = sCleanupRuns + 1
  /\ sPc' = IF sEnd = "initFailure" /\ sCleanupRuns = 0 THEN "cleanupSse"
            ELSE "ended"
  /\ UNCHANGED <<sIdx, messages, sInputs, sLlmCalls, sEnd, sSseClosed, sCmd, allTools>>
  /\ UNCHANGED notSessVars

(***************************************************************************)
(* The elicitation handler of the client and getInputFromUser              *)
(***************************************************************************)
MaxTyped == 4      \* longest answer typed at the approval prompt

\* the characters an answer is made of: blanks, the letters of yes and no in
\* both cases, one other letter
Whitespace == {" ", "\t"}
TypedChars == Whitespace \cup {"y", "Y", "e", "s", "S", "n", "N", "o", "x"}

\* what prompt() returns: null (end of input) or the line typed
NullLine == [isNull |-> TRUE, text |-> <<>>]
TypedLines ==
  {NullLine} \cup
  {[isNull |-> FALSE, text |-> s] :
     s \in UNION {[1..n -> TypedChars] : n \in 0..MaxTyped}}

\* String.prototype.toLowerCase, character by character
lowerChar(c) ==
  CASE c = "Y" -> "y"
    [] c = "S" -> "s"
    [] c = "N" -> "n"
    [] OTHER -> c
lowerCase(s) == [i \in 1..Len(s) |-> lowerChar(s[i])]

\* String.prototype.trim: the blanks at both ends are removed
RECURSIVE trimStart(_)
trimStart(s) ==
  IF s # <<>> /\ Head(s) \in Whitespace THEN trimStart(Tail(s)) ELSE s
RECURSIVE trimEnd(_)
trimEnd(s) ==
  IF s # <<>> /\ s[Len(s)] \in Whitespace
  THEN trimEnd(SubSeq(s, 1, Len(s) - 1)) ELSE s
trim(s) == trimEnd(trimStart(s))

\* the requested schemas: the one the handlers of the server send (a boolean
\* property approved) and one without properties
Schemas == {"approvedBoolean", "noProperties"}

\* the data object built from schema.properties
defaultData(schema) ==
  IF schema = "approvedBoolean" THEN "approvedTrue" ELSE "empty"

\* variant of getInputFromUser that compares the line as typed
getInputFromUser_noTrim(response, schema) ==
  IF response.isNull \/ response.text = <<>>
  THEN [action |-> "cancel", data |-> "absent"]
  ELSE LET trimmed == lowerCase(response.text)
       IN  IF trimmed \in {<<"y">>, <<"y", "e", "s">>}
           THEN [action |-> "accept", data |-> defaultData(schema)]
           ELSE IF trimmed \in {<<"n">>, <<"n", "o">>}
           THEN [action |-> "decline", data |-> "absent"]
           ELSE [action |-> "cancel", data |-> "absent"]

\* getInputFromUser(message, schema), given what prompt() returned
getInputFromUser(response, schema) ==
  IF response.isNull \/ response.text = <<>>
  THEN [action |-> "cancel", data |-> "absent"]
  ELSE LET trimmed == lowerCase(trim(response.text))
       IN  IF trimmed \in {<<"y">>, <<"y", "e", "s">>}
           THEN [action |-> "accept", data |-> defaultData(schema)]
           ELSE IF trimmed \in {<<"n">>, <<"n", "o">>}
           THEN [action |-> "decline", data |-> "absent"]
           ELSE [action |-> "cancel", data |-> "absent"]

\* the ElicitResult the request handler returns for a user response
elicitResult(userResponse) ==
  [action |-> userResponse.action,
   content |-> IF userResponse.action = "accept" THEN userResponse.data
               ELSE "absent"]

NoElicit == [pc |-> "off", schema |-> "approvedBoolean", typed |-> NullLine,
             result |-> NoResponse]

\* no elicitation request reaches the client in this specification
ElicitOff == elicit = NoElicit

\* the elicitation request of a handler reaches the client: the request
\* handler calls getInputFromUser, which shows the prompt
ElicitRequested ==
  /\ elicit.pc = "idle"
  /\ \E o \in Ops : ops[o].pc = "awaitApproval"
  /\ elicit' = [elicit EXCEPT !.pc = "prompting"]
  /\ UNCHANGED srvVars
  /\ UNCHANGED notElicitVars

\* the operator answers the prompt; the request handler returns its result
OperatorAnswers ==
  /\ elicit.pc = "prompting"
  /\ \E response \in TypedLines :
       elicit' = [elicit EXCEPT
                    !.pc = "answered",
                    !.typed = response,
                    !.result = elicitResult(getInputFromUser(response, elicit.schema))]
  /\ UNCHANGED srvVars
  /\ UNCHANGED notElicitVars

\* the handler of the server receives the result of the request handler
ElicitResultReceived(o) ==
  /\ elicit.pc = "answered"
  /\ ElicitationAnswered(o)
  /\ ops'[o].response = elicit.result

(***************************************************************************)
(* LLMClient: the two SDK clients and getResponse                          *)
(***************************************************************************)
MaxLlmCalls == 2   \* getResponse calls of one LLMClient explored

\* how one completion attempt ends: a text, a rate-limit or quota error,
\* any other error
AttemptOutcomes == {"text", "rateLimit", "otherError"}

\* genAI or groq is null
NullClient == [idx |-> 0, key |-> NoKey]

\* before the constructor has run
NoLlm == [genAI |-> NullClient, groq |-> NullClient, pc |-> "new",
          provider |-> "none", maxRetries |-> 0, attempt |-> 0,
          log |-> <<>>, calls |-> 0, result |-> "none"]

\* no LLMClient plays a part in this specification
LlmOff == llm = NoLlm

\* initializeClients(): each SDK client is made from the next key of its
\* pool, or is null when the pool gives none; cfg is what the two reads of
\* getApiKeyForProvider leave in the configuration
initializeClients(env, gk, qk, gi, qi) ==
  LET g == llmApiKey("gemini", gk, qk, gi, qi)
      q == llmApiKey("groq", gk, qk, g.gi, g.qi)
  IN  [genAI |-> IF g.outcome = "ok" THEN [idx |-> gi + 1, key |-> g.key]
                 ELSE NullClient,
       groq  |-> IF q.outcome = "ok" THEN [idx |-> g.qi + 1, key |-> q.key]
                 ELSE NullClient,
       gi |-> q.gi, qi |-> q.qi,
       env |-> llmProvider(env)]

\* new LLMClient(config)
LlmConstructed ==
  /\ llm.pc = "new"
  /\ LET c == initializeClients(LLM_PROVIDER, geminiApiKeys, groqApiKeys,
                                currentGeminiKeyIndex, currentGroqKeyIndex)
     IN  /\ llm' = [llm EXCEPT !.genAI = c.genAI, !.groq = c.groq, !.pc = "idle"]
         /\ currentGeminiKeyIndex' = c.gi
         /\ currentGroqKeyIndex' = c.qi
         /\ LLM_PROVIDER' = c.env
  /\ UNCHANGED <<geminiApiKeys, groqApiKeys, keyReads>>
  /\ UNCHANGED notLlmVars

\* getResponse is entered: provider and maxRetries are read, then the first
\* loop test
GetResponseEnter ==
  /\ llm.pc = "idle"
  /\ llm.calls < MaxLlmCalls
  /\ LET maxRetries == totalKeys(LLM_PROVIDER, geminiApiKeys, groqApiKeys)
     IN  llm' = [llm EXCEPT !.provider = llmProvider(LLM_PROVIDER),
                            !.maxRetries = maxRetries,
                            !.attempt = 0,
                            !.log = <<>>,
                            !.calls = @ + 1,
                            !.pc = IF 0 < maxRetries THEN "attempting" ELSE "done",
                            !.result = IF 0 < maxRetries THEN "none"
                                       ELSE "errorText"]
  /\ UNCHANGED cfgVars
  /\ UNCHANGED notLlmVars

\* what one attempt does once its outcome is known; retry says whether the
\* catch block goes on to the next key
afterAttempt(client, outcome, retry) ==
  LET entry == [idx |-> client.idx, key |-> client.key, outcome |-> outcome]
      c == initializeClients(LLM_PROVIDER, geminiApiKeys, groqApiKeys,
                             currentGeminiKeyIndex, currentGroqKeyIndex)
  IN  IF outcome = "text"
      THEN /\ llm' = [llm EXCEPT !.log = Append(@, entry), !.pc = "done",
                                  !.result = "text"]
           /\ UNCHANGED cfgVars
      ELSE IF retry
      THEN /\ llm' = [llm EXCEPT !.log = Append(@, entry),
                                  !.attempt = @ + 1,
                                  !.genAI = c.genAI, !.groq = c.groq]
           /\ currentGeminiKeyIndex' = c.gi
           /\ currentGroqKeyIndex' = c.qi
           /\ LLM_PROVIDER' = c.env
           /\ UNCHANGED <<geminiApiKeys, groqApiKeys, keyReads>>
      ELSE /\ llm' = [llm EXCEPT !.log = Append(@, entry), !.pc = "done",
                                  !.result = "errorText"]
           /\ UNCHANGED cfgVars

\* the client getResponse uses for its provider
clientOf(l) == IF l.provider = "groq" THEN l.groq ELSE l.genAI

\* variant of the catch block that goes on to the next key after any error
AttemptSettles_retryAnyError ==
  /\ llm.pc = "attempting"
  /\ \E outcome \in AttemptOutcomes :
       /\ clientOf(llm) = NullClient => outcome = "otherError"
       /\ afterAttempt(clientOf(llm), outcome,
                       llm.attempt < llm.maxRetries - 1)
  /\ UNCHANGED notLlmVars

\* one round of the loop of getResponse: getGroqResponse or
\* getGeminiResponse settles (a null client throws "not initialized"), and
\* the catch block either takes the next key or breaks
AttemptSettles ==
  /\ llm.pc = "attempting"
  /\ \E outcome \in AttemptOutcomes :
       /\ clientOf(llm) = NullClient => outcome = "otherError"
       /\ afterAttempt(clientOf(llm), outcome,
                       outcome = "rateLimit" /\ llm.attempt < llm.maxRetries - 1)
  /\ UNCHANGED notLlmVars

\* getResponse returns its text to the caller
GetResponseReturns ==
  /\ llm.pc = "done"
  /\ llm' = [llm EXCEPT !.pc = "idle"]
  /\ UNCHANGED cfgVars
  /\ UNCHANGED notLlmVars

(***************************************************************************)
(* Specifications                                                          *)
(***************************************************************************)
\* no tool handler is invoked and nobody subscribes
ServerIdle ==
  /\ ops = [o \in Ops |-> AbsentOp]
  /\ sseConnections = {}
  /\ sseWire = [c \in SessionIds |-> <<>>]
  /\ sseEmitted = [c \in SessionIds |-> <<>>]
  /\ esState = [c \in SessionIds |-> "none"]
  /\ activeSSEConnections = {}
  /\ sseReceived = [c \in SessionIds |-> <<>>]

InitConfig ==
  ConfigConstructed /\ ExecuteToolIdle /\ ServerIdle /\ ChatIdle /\ HandlesNew
  /\ SessionOff
  /\ LlmOff
  /\ ElicitOff

SpecConfig == InitConfig /\ [][NextConfig]_vars

InitET ==
  InitExecuteTool /\ ConfigFixed /\ ServerIdle /\ ChatIdle /\ HandlesNew
  /\ SessionOff
  /\ LlmOff
  /\ ElicitOff

SpecExecuteTool == InitET /\ [][NextExecuteTool]_vars

\* one invocation of any tool handler, in any environment; its session id
\* may be subscribed to at any time
InitServer ==
  /\ ConfigFixed
  /\ HandlesNew
  /\ SessionOff
  /\ LlmOff
  /\ ElicitOff
  /\ ExecuteToolIdle
  /\ ChatIdle
  /\ \E h \in Handlers, env \in Envs :
       ops = [o \in Ops |-> IF o = 1 THEN IdleOp(h[1], h[2], env) ELSE AbsentOp]
  /\ sseConnections = {}
  /\ sseWire = [c \in SessionIds |-> <<>>]
  /\ sseEmitted = [c \in SessionIds |-> <<>>]
  /\ esState = [c \in SessionIds |-> "none"]
  /\ activeSSEConnections = {}
  /\ sseReceived = [c \in SessionIds |-> <<>>]

NextServer ==
  \/ \E o \in Ops :
       \/ ToolCalled(o)
       \/ ElicitationAnswered(o)
       \/ ElicitationThrows(o)
       \/ CommandData(o)
       \/ CommandError(o)
       \/ JcError(o)
       \/ CommandClose(o)
       \/ JcClose(o)
       \/ FetchSettles(o)
  \/ \E sid \in {SidOf(1)} :
       \/ connectToSSE(sid)
       \/ SseEndpoint(sid)
       \/ EventSourceOpen(sid)
       \/ DeliverSSE(sid)
       \/ ReqClose(sid)

SpecServer == InitServer /\ [][NextServer]_vars

\* the server with a subscriber that may close its subscription at any time
NextDisconnect ==
  \/ NextServer
  \/ \E sid \in {SidOf(1)} : closeConnection(sid)

SpecDisconnect == InitServer /\ [][NextDisconnect]_vars
\* the events of the processes and of the connection do occur
SpecDisconnectFair == SpecDisconnect /\ WF_vars(NextDisconnect)

\* the environments explored with two concurrent streaming operations: all
\* goes well, the command cannot be spawned, jc cannot be spawned
StreamEnvs == {QuietEnv,
               [QuietEnv EXCEPT !.cmdSpawns = FALSE],
               [QuietEnv EXCEPT !.jcSpawns = FALSE]}

\* two streaming operations, network-ping with session id s1 and
\* network-traceroute with session id s2, on the same SSE server
InitStream ==
  /\ ConfigFixed
  /\ HandlesNew
  /\ SessionOff
  /\ LlmOff
  /\ ElicitOff
  /\ ExecuteToolIdle
  /\ ChatIdle
  /\ \E e1 \in StreamEnvs, e2 \in {QuietEnv} :
       ops = [o \in Ops |-> IF o = 1 THEN IdleOp("streamCommand", "ping", e1)
                            ELSE IdleOp("streamCommand", "traceroute", e2)]
  /\ sseConnections = {}
  /\ sseWire = [c \in SessionIds |-> <<>>]
  /\ sseEmitted = [c \in SessionIds |-> <<>>]
  /\ esState = [c \in SessionIds |-> "none"]
  /\ activeSSEConnections = {}
  /\ sseReceived = [c \in SessionIds |-> <<>>]

\* processLLMResponse awaits connectToSSE, which resolves in onopen, before
\* it has the tool executed
StreamToolCalled(o) ==
  /\ esState[SidOf(o)] = "open"
  /\ ToolCalled(o)

NextStream ==
  \/ \E o \in Ops :
       \/ StreamToolCalled(o)
       \/ ElicitationAnswered(o)
       \/ ElicitationThrows(o)
       \/ CommandData(o)
       \/ CommandError(o)
       \/ JcError(o)
       \/ CommandClose(o)
       \/ JcClose(o)
  \/ \E sid \in SessionIds :
       \/ connectToSSE(sid)
       \/ SseEndpoint(sid)
       \/ EventSourceOpen(sid)
       \/ DeliverSSE(sid)
       \/ ReqClose(sid)

SpecStream == InitStream /\ [][NextStream]_vars

\* one reply of the model is processed by a session whose providers are
\* connected; executeTool runs with its default retries
InitChat ==
  /\ ConfigFixed
  /\ HandlesNew
  /\ SessionOff
  /\ LlmOff
  /\ ElicitOff
  /\ ServerIdle
  /\ etClient = TRUE
  /\ etRetries = DefaultRetries
  /\ etAttempt = 0
  /\ etPc = "idle"
  /\ etCallLog = <<>>
  /\ etOutcome = NoOutcome
  /\ chPc = "idle"
  /\ chReply = [fence |-> "none", body |-> NotJson]
  /\ chTool = "absent"
  /\ chArgs = NoArgs
  /\ chSessionId = "none"
  /\ chServer = 1
  /\ chCalls = <<>>
  /\ chResult = NoChatResult

NextChat ==
  \/ ProcessLLMResponse
  \/ ChatConnectToSSE
  \/ ChatConnectRejected
  \/ ChatConnectResolved
  \/ \E sid \in SessionIds :
       \/ SseEndpoint(sid)
       \/ EventSourceOpen(sid)
       \/ EventSourceError(sid)
       \/ DeliverSSE(sid)
  \/ ListToolsReturns
  \/ ListToolsThrows
  \/ ChatExecuteToolEnter
  \/ CallToolReturns
  \/ CallToolThrows
  \/ RetryDelayElapsed
  \/ ChatToolDone

SpecChat == InitChat /\ [][NextChat]_vars

\* the event loop runs whatever callback or continuation is ready
SpecChatFair == SpecChat /\ WF_vars(NextChat)

\* the replies that call the streaming tool network-ping
StreamReplies ==
  {[fence |-> f, body |-> Body("object", "network-ping", av)] :
      f \in {"none", "json"}, av \in {"object", "objectWithSessionId"}}

\* one reply calling network-ping is processed; the provider that has the
\* tool runs it with streamCommand, for whichever session id was minted
InitStreamCall ==
  /\ ConfigFixed
  /\ HandlesNew
  /\ SessionOff
  /\ LlmOff
  /\ ElicitOff
  /\ etClient = TRUE
  /\ etRetries = DefaultRetries
  /\ etAttempt = 0
  /\ etPc = "idle"
  /\ etCallLog = <<>>
  /\ etOutcome = NoOutcome
  /\ chPc = "idle"
  /\ chReply = [fence |-> "none", body |-> NotJson]
  /\ chTool = "absent"
  /\ chArgs = NoArgs
  /\ chSessionId = "none"
  /\ chServer = 1
  /\ chCalls = <<>>
  /\ chResult = NoChatResult
  /\ \E e \in StreamEnvs :
       ops = [o \in Ops |-> IdleOp("streamCommand", "ping", e)]
  /\ sseConnections = {}
  /\ sseWire = [c \in SessionIds |-> <<>>]
  /\ sseEmitted = [c \in SessionIds |-> <<>>]
  /\ esState = [c \in SessionIds |-> "none"]
  /\ activeSSEConnections = {}
  /\ sseReceived = [c \in SessionIds |-> <<>>]

\* processLLMResponse is given a reply that calls network-ping
StreamReplyProcessed ==
  /\ ProcessLLMResponse
  /\ chReply' \in StreamReplies

\* client.callTool reaches the provider: the ping handler calls
\* streamCommand with the sessionId found in the arguments
ProviderToolCalled(o) ==
  /\ etPc = "calling"
  /\ SidOf(o) = chArgs.sessionId
  /\ ToolCalled(o)

\* streamCommand has returned its result: client.callTool returns
ProviderToolReturned ==
  /\ \E o \in Ops : SidOf(o) = chArgs.sessionId /\ ops[o].pc = "returned"
  /\ CallToolReturns

NextStreamCall ==
  \/ StreamReplyProcessed
  \/ ChatConnectToSSE
  \/ ChatConnectRejected
  \/ ChatConnectResolved
  \/ \E sid \in SessionIds :
       \/ SseEndpoint(sid)
       \/ EventSourceOpen(sid)
       \/ EventSourceError(sid)
       \/ DeliverSSE(sid)
       \/ ReqClose(sid)
  \/ ListToolsReturns
  \/ ListToolsThrows
  \/ ChatExecuteToolEnter
  \/ \E o \in Ops :
       \/ ProviderToolCalled(o)
       \/ ElicitationAnswered(o)
       \/ ElicitationThrows(o)
       \/ CommandData(o)
       \/ CommandError(o)
       \/ JcError(o)
       \/ CommandClose(o)
       \/ JcClose(o)
  \/ ProviderToolReturned
  \/ ChatToolDone

SpecStreamCall == InitStreamCall /\ [][NextStreamCall]_vars

\* executeTool against the provider: every attempt of client.callTool
\* invokes the tool handler anew; the attempt returns what the handler
\* returned, or throws (transport error, request timeout) at any time
CallEnvs == {QuietEnv, [QuietEnv EXCEPT !.cmdCode = 1],
             [QuietEnv EXCEPT !.cmdSpawns = FALSE],
             [QuietEnv EXCEPT !.jcSpawns = FALSE]}

\* the CallToolResult the client receives for a result of a handler
callToolResultOf(result) ==
  [content |-> "text", isError |-> result.isError = "true"]

\* the invocation that serves the current attempt
opOfAttempt == etAttempt + 1

InitCall ==
  /\ ConfigFixed
  /\ HandlesNew
  /\ SessionOff
  /\ LlmOff
  /\ ElicitOff
  /\ ChatIdle
  /\ etClient = TRUE
  /\ etRetries = DefaultRetries
  /\ etAttempt = 0
  /\ etPc = "idle"
  /\ etCallLog = <<>>
  /\ etOutcome = NoOutcome
  /\ \E h \in Handlers, env \in CallEnvs :
       ops = [o \in Ops |-> IdleOp(h[1], h[2], env)]
  /\ sseConnections = {}
  /\ sseWire = [c \in SessionIds |-> <<>>]
  /\ sseEmitted = [c \in SessionIds |-> <<>>]
  /\ esState = [c \in SessionIds |-> "none"]
  /\ activeSSEConnections = {}
  /\ sseReceived = [c \in SessionIds |-> <<>>]

\* the request of the current attempt reaches the tool handler
CallReachesProvider(o) ==
  /\ etPc = "calling"
  /\ o = opOfAttempt
  /\ ToolCalled(o)

\* the handler of the current attempt has returned: client.callTool returns
\* its result
CallReturnsFromProvider(o) ==
  /\ o = opOfAttempt
  /\ ops[o].pc = "returned"
  /\ CallToolReturns
  /\ etCallLog'[Len(etCallLog')].result = callToolResultOf(ops[o].result)

NextCall ==
  \/ ExecuteToolEnter
  \/ \E o \in Ops :
       \/ CallReachesProvider(o)
       \/ ElicitationAnswered(o)
       \/ ElicitationThrows(o)
       \/ CommandData(o)
       \/ CommandError(o)
       \/ JcError(o)
       \/ CommandClose(o)
       \/ JcClose(o)
       \/ FetchSettles(o)
       \/ CallReturnsFromProvider(o)
  \/ CallToolThrows
  \/ RetryDelayElapsed

SpecCall == InitCall /\ [][NextCall]_vars

\* one handle and its callers: initialize(), cleanup() and the pass-through
\* calls in any order, one call at a time
InitHandle ==
  /\ ConfigFixed
  /\ SessionOff
  /\ LlmOff
  /\ ElicitOff
  /\ ExecuteToolIdle
  /\ ServerIdle
  /\ ChatIdle
  /\ HandlesNew

NextHandle ==
  \E s \in {1} :
    \/ Initialize(s)
    \/ ConnectResolves(s)
    \/ ConnectRejects(s)
    \/ ListPromptsSettles(s)
    \/ ListResourcesSettles(s)
    \/ Cleanup(s)
    \/ ClientCloseSettles(s)
    \/ TransportCloseSettles(s)
    \/ HandleCall(s)

SpecHandle == InitHandle /\ [][NextHandle]_vars

\* the same, for a handle that is initialized once, as ChatSession.start
\* initializes its providers
NextHandleOnce ==
  \E s \in {1} :
    \/ FirstInitialize(s)
    \/ ConnectResolves(s)
    \/ ConnectRejects(s)
    \/ ListPromptsSettles(s)
    \/ ListResourcesSettles(s)
    \/ Cleanup(s)
    \/ ClientCloseSettles(s)
    \/ TransportCloseSettles(s)
    \/ HandleCall(s)

SpecHandleOnce == InitHandle /\ [][NextHandleOnce]_vars

\* one session from start() to its end: the providers are initialized in
\* order, the loop reads inputs and processes replies, cleanupServers runs
\* the provider calls of a turn as the session specifications explore them:
\* a catalog that is empty or full, one result and one error of callTool
\* (SpecChat and SpecExecuteTool explore every catalog, result and error)
SessListToolsReturns ==
  /\ ListToolsReturns
  /\ chCalls'[Len(chCalls) + 1].catalog \in {{}, {"network-ping", "network-dnsLookup"}}

\* while the tools are collected every provider lists the two tools
BothTools == <<"network-ping", "network-traceroute">>

SessCollectBoth ==
  /\ SessCollect
  /\ sEnd' = "none" => allTools' = allTools \o BothTools

SessCallToolReturns ==
  /\ CallToolReturns
  /\ etOutcome'.result = [content |-> "text", isError |-> FALSE]

SessCallToolThrows ==
  /\ CallToolThrows
  /\ etCallLog'[Len(etCallLog')].error = "e1"

InitSession ==
  /\ ConfigFixed
  /\ HandlesNew
  /\ ServerIdle
  /\ ChatIdle
  /\ etClient = TRUE
  /\ etRetries = DefaultRetries
  /\ etAttempt = 0
  /\ etPc = "idle"
  /\ etCallLog = <<>>
  /\ etOutcome = NoOutcome
  /\ sPc = "initialize"
  /\ sIdx = 1
  /\ messages = <<>>
  /\ sInputs = 0
  /\ sLlmCalls = 0
  /\ sEnd = "none"
  /\ sCleanupRuns = 0
  /\ sSseClosed = {}
  /\ sCmd = NoCmd
  /\ allTools = <<>>
  /\ LlmOff
  /\ ElicitOff

NextSession ==
  \/ SessInitialize
  \/ \E s \in Servers :
       \/ ConnectResolves(s)
       \/ ConnectRejects(s)
       \/ SessListPromptsSettles(s)
       \/ SessListResourcesSettles(s)
       \/ ClientCloseSettles(s)
       \/ TransportCloseSettles(s)
  \/ SessInitReturned
  \/ SessInitThrew
  \/ SessCollectBoth
  \/ SessReadInput
  \/ SessLlmResponds
  \/ SessReplyProcessed
  \/ ChatConnectToSSE
  \/ ChatConnectRejected
  \/ ChatConnectResolved
  \/ \E sid \in SessionIds :
       \/ SseEndpoint(sid)
       \/ EventSourceOpen(sid)
       \/ EventSourceError(sid)
       \/ DeliverSSE(sid)
  \/ SessListToolsReturns
  \/ ListToolsThrows
  \/ ChatExecuteToolEnter
  \/ SessCallToolReturns
  \/ SessCallToolThrows
  \/ RetryDelayElapsed
  \/ ChatToolDone
  \/ SessTurnProcessed
  \/ SessFollowUp
  \/ SessGetPromptSettles
  \/ SessWfLlmResponds
  \/ SessWfReplyProcessed
  \/ SessWfTurnProcessed
  \/ SessReadResourceSettles
  \/ SessCleanupSse
  \/ SessCleanupServers
  \/ SessCleanupSettled

SpecSession == InitSession /\ [][NextSession]_vars

\* the chat loop alone: start() has initialized its providers and collected
\* their tools; each provider's caches hold its lists or are empty
ConnectedHandle(cached) ==
  [NewHandle EXCEPT !.client = 1, !.transport = 1, !.connected = TRUE,
                    !.prompts = cached, !.resources = cached,
                    !.inits = 1, !.init = "returned"]

InitTurns ==
  /\ ConfigFixed
  /\ ServerIdle
  /\ ChatIdle
  /\ etClient = TRUE
  /\ etRetries = DefaultRetries
  /\ etAttempt = 0
  /\ etPc = "idle"
  /\ etCallLog = <<>>
  /\ etOutcome = NoOutcome
  /\ handles \in [Servers -> {ConnectedHandle(cached) : cached \in {0, 1}}]
  /\ sPc = "prompt"
  /\ sIdx = NumServers
  /\ messages = <<Msg("system", "systemMessage")>>
  /\ sInputs = 0
  /\ sLlmCalls = 0
  /\ sEnd = "none"
  /\ sCleanupRuns = 0
  /\ sSseClosed = {}
  /\ sCmd = NoCmd
  /\ allTools = BothTools \o BothTools
  /\ LlmOff
  /\ ElicitOff

NextTurns ==
  \/ SessReadInput
  \/ SessLlmResponds
  \/ SessReplyProcessed
  \/ ChatConnectToSSE
  \/ ChatConnectRejected
  \/ ChatConnectResolved
  \/ \E sid \in SessionIds :
       \/ SseEndpoint(sid)
       \/ EventSourceOpen(sid)
       \/ EventSourceError(sid)
       \/ DeliverSSE(sid)
  \/ SessListToolsReturns
  \/ ListToolsThrows
  \/ ChatExecuteToolEnter
  \/ SessCallToolReturns
  \/ SessCallToolThrows
  \/ RetryDelayElapsed
  \/ ChatToolDone
  \/ SessTurnProcessed
  \/ SessFollowUp
  \/ SessGetPromptSettles
  \/ SessWfLlmResponds
  \/ SessWfReplyProcessed
  \/ SessWfTurnProcessed
  \/ SessReadResourceSettles

SpecTurns == InitTurns /\ [][NextTurns]_vars

\* the collection of the tools alone: every provider is initialized and
\* start() is about to call listTools on the first one
InitCollect ==
  /\ ConfigFixed
  /\ ServerIdle
  /\ ChatIdle
  /\ etClient = TRUE
  /\ etRetries = DefaultRetries
  /\ etAttempt = 0
  /\ etPc = "idle"
  /\ etCallLog = <<>>
  /\ etOutcome = NoOutcome
  /\ handles = [s \in Servers |-> ConnectedHandle(1)]
  /\ sPc = "collect"
  /\ sIdx = 1
  /\ messages = <<>>
  /\ sInputs = 0
  /\ sLlmCalls = 0
  /\ sEnd = "none"
  /\ sCleanupRuns = 0
  /\ sSseClosed = {}
  /\ sCmd = NoCmd
  /\ allTools = <<>>
  /\ LlmOff
  /\ ElicitOff

NextCollect == SessCollect

SpecCollect == InitCollect /\ [][NextCollect]_vars

\* the LLM client on a configuration as its constructor leaves it
InitLlm ==
  /\ ConfigConstructed
  /\ ExecuteToolIdle
  /\ ServerIdle
  /\ ChatIdle
  /\ HandlesNew
  /\ SessionOff
  /\ ElicitOff
  /\ llm = NoLlm

NextLlm ==
  \/ LlmConstructed
  \/ GetResponseEnter
  \/ AttemptSettles
  \/ GetResponseReturns

SpecLlm == InitLlm /\ [][NextLlm]_vars

\* one tool handler of the server and the client that answers its
\* elicitation request at the terminal
InitElicit ==
  /\ ConfigFixed
  /\ HandlesNew
  /\ SessionOff
  /\ LlmOff
  /\ ExecuteToolIdle
  /\ ChatIdle
  /\ \E h \in Handlers, schema \in Schemas :
       /\ ops = [o \in Ops |-> IF o = 1 THEN IdleOp(h[1], h[2], QuietEnv)
                               ELSE AbsentOp]
       /\ elicit = [NoElicit EXCEPT !.pc = "idle", !.schema = schema]
  /\ sseConnections = {}
  /\ sseWire = [c \in SessionIds |-> <<>>]
  /\ sseEmitted = [c \in SessionIds |-> <<>>]
  /\ esState = [c \in SessionIds |-> "none"]
  /\ activeSSEConnections = {}
  /\ sseReceived = [c \in SessionIds |-> <<>>]

NextElicit ==
  \/ ElicitRequested
  \/ OperatorAnswers
  \/ \E o \in Ops :
       \/ ToolCalled(o)
       \/ ElicitResultReceived(o)
       \/ CommandData(o)
       \/ CommandClose(o)
       \/ JcClose(o)
       \/ FetchSettles(o)

SpecElicit == InitElicit /\ [][NextElicit]_vars

(***************************************************************************)
(* Claims about credential rotation                                        *)
(***************************************************************************)
Pool(p) == IF p = "groq" THEN groqApiKeys ELSE geminiApiKeys
CursorOf(pair, p) == IF p = "groq" THEN pair[2] ELSE pair[1]
ReadsOf(p) == SelectSeq(keyReads, LAMBDA e : e.provider = p)
CeilDiv(n, k) == (n + k - 1) \div k

\* C6: with a pool of K > 0 credentials, successive reads of llmApiKey return
\* the credentials in cyclic list order starting at the cursor of the first
\* read, every read moves the cursor by exactly one position (mod K), and in
\* every run of N successive reads each pool position is returned floor(N/K)
\* or ceil(N/K) times.
C6_RoundRobin ==
  \A p \in {"gemini", "groq"} :
    LET K == Len(Pool(p))
        L == ReadsOf(p)
    IN  K > 0 =>
          /\ \A j \in 1..Len(L) :
               /\ L[j].outcome = "ok"
               /\ L[j].index \in 0..(K - 1)
               /\ L[j].key = Pool(p)[L[j].index + 1]
               /\ CursorOf(L[j].before, p) = L[j].index
               /\ CursorOf(L[j].after, p) = (L[j].index + 1) % K
          /\ \A s \in 1..Len(L) : \A t \in s..Len(L) :
               /\ L[t].index = (L[s].index + (t - s)) % K
               /\ \A i \in 0..(K - 1) :
                    Cardinality({j \in s..t : L[j].index = i})
                      \in {(t - s + 1) \div K, CeilDiv(t - s + 1, K)}

\* C6 witness: a pool of at least two credentials was read more often than
\* it has credentials, so the rotation has wrapped around.
C6_Witness ==
  \E p \in {"gemini", "groq"} :
    /\ Len(Pool(p)) >= 2
    /\ Len(ReadsOf(p)) > Len(Pool(p))

\* C7: every read of llmApiKey made while the current provider's pool is
\* empty fails with the no-credentials error and leaves both rotation
\* cursors as they were.
C7_EmptyPoolFails ==
  \A j \in 1..Len(keyReads) :
    Len(Pool(keyReads[j].provider)) = 0 =>
      /\ keyReads[j].outcome = "NoCredentials"
      /\ keyReads[j].key = NoKey
      /\ keyReads[j].after = keyReads[j].before

\* C7 witness: the empty pool was read twice in a row while the other pool
\* had already rotated.
C7_Witness ==
  \E j \in 1..(Len(keyReads) - 1) :
    /\ Len(Pool(keyReads[j].provider)) = 0
    /\ keyReads[j + 1].provider = keyReads[j].provider
    /\ keyReads[j].before # <<0, 0>>

(***************************************************************************)
(* Claims about executeTool                                                *)
(***************************************************************************)
AllThrown(log) == \A j \in 1..Len(log) : log[j].kind = "thrown"

\* C5: executeTool(name, args, retries = n) invokes callTool at most n times,
\* makes no further attempt after the first one that returns, and when all
\* n >= 1 attempts throw it throws the error of the last attempt unchanged.
C5_RetryBound ==
  LET calls == Len(etCallLog)
  IN  /\ calls <= etRetries
      /\ \A j \in 1..calls :
           etCallLog[j].kind = "returned" =>
             /\ j = calls
             /\ etPc = "done"
             /\ etOutcome.kind = "returned"
      /\ (etPc = "done" /\ etRetries >= 1 /\ calls = etRetries
            /\ AllThrown(etCallLog))
           => etOutcome = [kind |-> "thrown", error |-> etCallLog[calls].error]

\* C5 witness: with the default of 2 retries both attempts threw, with
\* different errors, and the second error is the one surfaced.
C5_Witness ==
  /\ etRetries = DefaultRetries
  /\ etPc = "done"
  /\ Len(etCallLog) = 2
  /\ AllThrown(etCallLog)
  /\ etCallLog[1].error # etCallLog[2].error
  /\ etOutcome = [kind |-> "thrown", error |-> etCallLog[2].error]

(***************************************************************************)
(* Claims about the approval gate                                          *)
(***************************************************************************)
CommandKinds == {"executeCommand", "streamCommand"}

C2_ApprovalFailureFailsClosed ==
  \A o \in Ops :
    ops[o].response = ThrownResponse =>
      /\ ops[o].spawns = 0
      /\ ops[o].fetches = 0
      /\ ops[o].cmd = "none"
      /\ ops[o].jc = "none"
      /\ ops[o].pc = "returned"
      /\ ops[o].result # NoResult
      /\ ops[o].result.isError \in {"true", "false", "absent"}

\* C2 witness: the elicitation request of the geoIP handler threw and the
\* handler has returned.
C2_Witness ==
  \E o \in Ops :
    /\ ops[o].kind = "geoIP"
    /\ ops[o].response = ThrownResponse
    /\ ops[o].pc = "returned"

(***************************************************************************)
(* Claims about streaming                                                  *)
(***************************************************************************)
TerminalKinds == {"complete", "error", "cancelled"}

\* the number of terminal events invocation o has passed to sendSSEEvent
TerminalsSent(o) ==
  Cardinality({j \in 1..Len(sseEmitted[SidOf(o)]) :
                 /\ sseEmitted[SidOf(o)][j].event.op = o
                 /\ sseEmitted[SidOf(o)][j].event.kind \in TerminalKinds})

\* C9 (as claimed): every streamCommand operation sends exactly one terminal
\* event for its correlation id: never more than one, and one has been sent
\* by the time the operation returns its result.
C9_ExactlyOneTerminal ==
  \A o \in Ops :
    ops[o].kind = "streamCommand" =>
      /\ TerminalsSent(o) <= 1
      /\ ops[o].result # NoResult => TerminalsSent(o) = 1

\* the events invocation o has passed to sendSSEEvent, in call order
Sent(o) ==
  LET L == SelectSeq(sseEmitted[SidOf(o)], LAMBDA r : r.event.op = o)
  IN  [j \in 1..Len(L) |-> L[j].event]

\* C11: for each correlation id the events streamCommand sends are ordered:
\* a start event precedes every output event, the output events carry the
\* chunks in the order the command produced them, and no start or output
\* event is sent after a terminal event of that id.
C11_EventOrder ==
  \A o \in Ops :
    ops[o].kind = "streamCommand" =>
      LET E == Sent(o)
          outs == SelectSeq(E, LAMBDA e : e.kind = "output")
      IN  /\ \A j \in 1..Len(E) :
               E[j].kind = "output" =>
                 \E i \in 1..(j - 1) : E[i].kind = "start"
          /\ \A j \in 1..Len(outs) : outs[j].n = j
          /\ \A i \in 1..Len(E), j \in 1..Len(E) :
               (i < j /\ E[i].kind \in TerminalKinds) =>
                 E[j].kind \notin {"start", "output"}
          /\ Cardinality({j \in 1..Len(E) : E[j].kind = "start"}) <= 1

\* C11 witness: a streaming command has sent its start event, two output
\* events and, after both processes exited, its complete event.
C11_Witness ==
  \E o \in Ops :
    /\ ops[o].kind = "streamCommand"
    /\ Len(Sent(o)) = 4
    /\ Sent(o)[1].kind = "start"
    /\ Sent(o)[2].kind = "output"
    /\ Sent(o)[3].kind = "output"
    /\ Sent(o)[4].kind = "complete"

OpEvents(seq) == SelectSeq(seq, LAMBDA e : e.kind # "connected")
IsPrefix(a, b) == Len(a) <= Len(b) /\ \A j \in 1..Len(a) : a[j] = b[j]
\* the events emitted for a session id while its connection was registered
\* and writable, in emission order
Due(sid) ==
  LET L == SelectSeq(sseEmitted[sid], LAMBDA r : r.live)
  IN  [j \in 1..Len(L) |-> L[j].event]

\* C8: with two streaming operations emitting on the same SSE server, the
\* subscriber of each id receives only events emitted for its own id, in
\* emission order and without duplication (a prefix of what was written to
\* its connection), and without loss (all of it once nothing is in flight).
C8_StreamCorrelation ==
  \A sid \in SessionIds :
    LET got == OpEvents(sseReceived[sid])
    IN  /\ \A j \in 1..Len(got) : got[j].sid = sid /\ SidOf(got[j].op) = sid
        /\ IsPrefix(got, Due(sid))
        /\ (esState[sid] = "open" /\ sseWire[sid] = <<>>) => got = Due(sid)

\* C8 witness: both operations are still running and each subscriber has
\* received the start event and two output events of its own operation.
C8_Witness ==
  \A o \in Ops :
    /\ ops[o].completions = 0
    /\ ops[o].cmd = "spawned"
    /\ Len(SelectSeq(sseReceived[SidOf(o)], LAMBDA e : e.kind = "output")) >= 2

\* C10 (as claimed): once the SSEManager has handled a terminal event of a
\* correlation id, the subscription of that id is closed and no longer in
\* activeSSEConnections.
C10_TerminalClosesSubscription ==
  \A sid \in SessionIds :
    (\E j \in 1..Len(sseReceived[sid]) :
        /\ sseReceived[sid][j].tool \in StreamTools
        /\ sseReceived[sid][j].kind \in TerminalKinds)
      => /\ sid \notin activeSSEConnections
         /\ esState[sid] = "closed"

(***************************************************************************)
(* Claims about processLLMResponse                                         *)
(***************************************************************************)
\* the reply parses, after the optional fence is stripped, as an object that
\* carries a tool name (a non-empty string) and an arguments object
CarriesToolCall(reply) ==
  LET parsed == stripFence(reply)
  IN  /\ parsed.t = "object"
      /\ parsed.tool \in ToolNames
      /\ parsed.arguments \in {"emptyObject", "object", "objectWithSessionId",
                                "array"}

\* C3: for a reply that carries a tool name and an arguments object, every
\* executeTool call of processLLMResponse is made for that name on a provider
\* whose catalog, listed by the call just before it, contains the name; the
\* providers listed earlier lacked the name and were not called.
C3_DispatchOnlyToProviderWithTool ==
  CarriesToolCall(chReply) =>
    \A j \in 1..Len(chCalls) :
      chCalls[j].op = "executeTool" =>
        /\ chCalls[j].name = stripFence(chReply).tool
        /\ chCalls[j].name \in chCalls[j].catalog
        /\ j > 1
        /\ chCalls[j - 1].op = "listTools"
        /\ chCalls[j - 1].server = chCalls[j].server
        /\ chCalls[j - 1].catalog = chCalls[j].catalog
        /\ \A i \in 1..(j - 2) :
             /\ chCalls[i].op = "listTools"
             /\ chCalls[i].server < chCalls[j].server
             /\ chCalls[j].name \notin chCalls[i].catalog

\* C3 witness: a fenced reply naming network-dnsLookup was dispatched to the
\* second provider, after the first provider's catalog lacked the tool, and
\* the tool result has been returned.
C3_Witness ==
  /\ CarriesToolCall(chReply)
  /\ chReply.fence = "json"
  /\ chTool = "network-dnsLookup"
  /\ chPc = "done"
  /\ chResult.kind = "toolResult"
  /\ Len(chCalls) = 3
  /\ chCalls[3].op = "executeTool"
  /\ chCalls[3].server = 2

\* C4 (as claimed): for a reply that is not valid JSON or does not carry both
\* a tool name and an arguments object, processLLMResponse returns the reply
\* unchanged, makes no provider call and opens no stream subscription.
C4_MalformedReplyReturnedUnchanged ==
  (chPc \notin {"off", "idle"} /\ ~CarriesToolCall(chReply)) =>
    /\ chPc = "done"
    /\ chResult = [kind |-> "reply", detail |-> "llmResponse"]
    /\ chCalls = <<>>
    /\ \A sid \in SessionIds : esState[sid] = "none"

(***************************************************************************)
(* Claims about streaming tool calls                                       *)
(***************************************************************************)
\* the attempt to open the subscription has finished: the constructor threw
\* (nothing was registered) or onopen has fired
ConnectFinished(sid) == esState[sid] \in {"none", "open", "closed"}

ConnectFailed == chSessionId \in SessionIds /\ esState[chSessionId] = "error"

\* C13 (as claimed): after a failure to open the stream subscription,
\* processLLMResponse still goes on to the provider loop and eventually
\* returns.
C13_ConnectFailureDoesNotBlock == ConnectFailed ~> (chPc = "done")

(***************************************************************************)
(* Claims about provider selection                                         *)
(***************************************************************************)
\* the positions of the executeTool calls in the log of provider calls
ExecuteCalls == {j \in 1..Len(chCalls) : chCalls[j].op = "executeTool"}

\* C15: processLLMResponse calls executeTool on at most one provider, the
\* first in session order whose catalog has the tool: the providers before it
\* were listed and lacked the name, no provider after it is listed or
\* called, and once that execution has returned or failed processLLMResponse
\* returns its result or its error.
C15_FirstProviderOnly ==
  /\ Cardinality(ExecuteCalls) <= 1
  /\ \A j \in ExecuteCalls :
       /\ j = Len(chCalls)
       /\ chCalls[j].server = chServer
       /\ \A k \in 1..(chServer - 1) :
            \E i \in 1..(j - 1) :
              /\ chCalls[i].op = "listTools"
              /\ chCalls[i].server = k
              /\ chCalls[j].name \notin chCalls[i].catalog
       /\ \A i \in 1..Len(chCalls) : chCalls[i].server <= chCalls[j].server
       /\ chPc \in {"executing", "done"}
       /\ chPc = "done" =>
            /\ etPc = "done"
            /\ chResult.kind =
                 (IF etOutcome.kind = "returned" THEN "toolResult"
                  ELSE "toolError")

\* C15 witness: the first provider had the tool, its execution failed on
\* every attempt, and processLLMResponse returned the error with the second
\* provider neither listed nor called.
C15_Witness ==
  /\ chPc = "done"
  /\ chResult.kind = "toolError"
  /\ Len(chCalls) = 2
  /\ chCalls[2].op = "executeTool"
  /\ chCalls[2].server = 1
  /\ chCalls[2].server < NumServers
  /\ Len(etCallLog) = DefaultRetries

(***************************************************************************)
(* Claims about the provider handle                                        *)
(***************************************************************************)
\* every client and every transport a handle created was closed at most
\* once, and a cleanup() that has returned left client and transport null
CleanupClosesOnce ==
  \A s \in Servers :
    /\ \A g \in 1..MaxInits :
         /\ handles[s].clientCloses[g] <= 1
         /\ handles[s].transportCloses[g] <= 1
    /\ (handles[s].pc = "idle" /\ handles[s].ret = "none" /\
        handles[s].cleanups > 0 /\ handles[s].init # "returned")
         => handles[s].client = 0 /\ handles[s].transport = 0
    /\ handles[s].pc \in {"closingClient", "closingTransport"}
         => handles[s].ret \in {"caller", "initialize"}

\* a cleanup() call on a handle whose client and transport are null changes
\* nothing but the count of calls
SecondCleanupChangesNothing ==
  \A s \in Servers :
    (/\ handles[s].client = 0
     /\ handles[s].transport = 0
     /\ handles'[s].cleanups = handles[s].cleanups + 1)
      => handles'[s] = [handles[s] EXCEPT !.cleanups = @ + 1]

\* C16: cleanup() is idempotent and never throws: over any number of calls
\* each client and each transport is closed at most once, a call on a handle
\* already cleaned up changes nothing, and a close that rejects is swallowed
\* with client and transport still cleared when cleanup() returns.
C16_CleanupIdempotent ==
  []CleanupClosesOnce /\ [][SecondCleanupChangesNothing]_vars

\* C16 witness: cleanup() was called twice on a connected handle, a close
\* rejected, and the handle is left with client and transport null, each
\* closed once.
C16_Witness ==
  /\ handles[1].cleanups = 2
  /\ handles[1].pc = "idle"
  /\ handles[1].closed
  /\ handles[1].closeRejected
  /\ handles[1].client = 0
  /\ handles[1].transport = 0
  /\ handles[1].clientCloses[1] = 1
  /\ handles[1].transportCloses[1] = 1

\* C19 (as claimed): a pass-through call is forwarded to the provider only
\* while the handle is Connected and fails with the not-initialized error
\* otherwise, and a handle that was closed after a connection never forwards
\* a call again.
C19_ForwardOnlyWhileConnected ==
  \A s \in Servers :
    LET c == handles[s].last
    IN  c.method # "none" =>
          /\ c.outcome \in {"forwarded", "NotInitialized"}
          /\ c.outcome = "forwarded" <=> (c.connected /\ ~c.closedBefore)

NoCatalogHasTool ==
  /\ Len(chCalls) = NumServers
  /\ \A k \in 1..NumServers :
       /\ chCalls[k].op = "listTools"
       /\ chCalls[k].server = k
       /\ chCalls[k].catalog \in Catalogs
       /\ chTool \notin chCalls[k].catalog

\* processLLMResponse returns the no-server text exactly when no catalog
\* had the tool, and in the history that text is a system message that
\* follows the assistant reply
NoServerReported ==
  /\ chPc = "done" =>
       (chResult = [kind |-> "noServer", detail |-> chTool] <=> NoCatalogHasTool)
  /\ chResult.kind = "noServer" => chPc = "done"
  /\ \A j \in 1..Len(messages) :
       messages[j] = Msg("system", "noServer") =>
         /\ j >= 3
         /\ messages[j - 1] = Msg("assistant", "llmResponse")

\* the turn that got the no-server text appends the assistant reply and the
\* text and goes on, inside the loop, to the follow-up completion
NoServerTurnGoesOn ==
  (sPc = "processing" /\ chPc = "done" /\ chResult.kind = "noServer"
     /\ sPc' # sPc)
    => /\ messages' = messages \o <<Msg("assistant", "llmResponse"),
                                    Msg("system", "noServer")>>
       /\ sPc' = "followUp"
       /\ sEnd' = "none"

\* C14: when no provider's catalog has the requested tool,
\* processLLMResponse returns "No server found with tool: <name>" without
\* throwing, the turn appends it to the history as a system message after
\* the assistant reply, and the loop of the session continues.
C14_NoServerFound == []NoServerReported /\ [][NoServerTurnGoesOn]_vars

\* C14 witness: a turn ended with the no-server text in the history and the
\* session went on to read the next input, a new question.
C14_Witness ==
  /\ Len(messages) >= 5
  /\ messages[4] = Msg("system", "noServer")
  /\ messages[Len(messages)] = Msg("user", "userInput")
  /\ sInputs = 2

LoopPcs == {"collect", "prompt", "llm", "processing", "followUp"}

\* C17: once initialize() of a provider has failed in start(), no input is
\* read and the model is never called, the session ends, and by then
\* cleanup() has been called on every provider, the ones initialized before
\* the failure included, leaving each with client and transport null.
C17_InitFailureEndsSession ==
  /\ (\E s \in Servers : handles[s].init = "threw" /\ handles[s].pc = "idle")
       => /\ sPc \notin LoopPcs
          /\ sInputs = 0
          /\ sLlmCalls = 0
          /\ messages = <<>>
  /\ sEnd = "initFailure" =>
       /\ \E s \in Servers : handles[s].init = "threw"
       /\ sCleanupRuns >= 1 =>
            \A s \in Servers :
              /\ handles[s].cleanups >= 1
              /\ handles[s].client = 0
              /\ handles[s].transport = 0
              /\ handles[s].init = "returned" =>
                   /\ handles[s].clientCloses[1] = 1
                   /\ handles[s].transportCloses[1] = 1

\* C17 witness: the second provider failed to initialize after the first
\* was connected, and the session has ended with the first one closed.
C17_Witness ==
  /\ sPc = "ended"
  /\ sEnd = "initFailure"
  /\ handles[1].init = "returned"
  /\ handles[1].closed
  /\ handles[NumServers].init = "threw"

\* C18: when start() has ended, for whatever reason, the registry of stream
\* subscriptions is empty, close() was called on every EventSource still
\* open, and cleanup() was called on every provider and left its client and
\* transport null, also when a close of a subscription or of another
\* provider failed.
C18_TeardownOnEveryExit ==
  sPc = "ended" =>
    /\ sEnd \in {"quit", "eof", "initFailure", "exception"}
    /\ sCleanupRuns >= 1
    /\ activeSSEConnections = {}
    /\ \A c \in SessionIds : esState[c] \notin {"none", "closed"} => c \in sSseClosed
    /\ \A s \in Servers :
         /\ handles[s].cleanups >= 1
         /\ handles[s].pc = "idle"
         /\ handles[s].client = 0
         /\ handles[s].transport = 0

\* C18 witness: the session ended on quit with a subscription whose close()
\* threw and a provider whose close rejected, and the other provider was
\* closed all the same.
C18_Witness ==
  /\ sPc = "ended"
  /\ sEnd = "quit"
  /\ \E c \in sSseClosed : esState[c] # "closed"
  /\ handles[1].closeRejected
  /\ handles[NumServers].closed
  /\ handles[NumServers].clientCloses[1] = 1

WorkflowPcs == {"wfLlm", "wfProcessing"}

\* one iteration of the workflow loop: one getResponse call, then the reply
\* goes to processLLMResponse; what is pushed when processLLMResponse has
\* returned, and where the loop goes
WorkflowIteration ==
  /\ (sPc = "wfLlm" /\ sPc' # sPc)
       => /\ sPc' = "wfProcessing"
          /\ sLlmCalls' = sLlmCalls + 1
          /\ chPc' = "idle"
          /\ messages' = messages
  /\ (sPc = "wfProcessing" /\ sPc' = sPc)
       => /\ sLlmCalls' = sLlmCalls
          /\ messages' = messages
  /\ (sPc = "wfProcessing" /\ sPc' # sPc)
       => /\ chPc = "done"
          /\ sLlmCalls' = sLlmCalls
          /\ IF chResult.kind \in {"toolResult", "toolError", "noServer"}
             THEN /\ messages' = messages \o
                                   <<Msg("assistant", "llmResponse"),
                                     Msg("system", chResult.kind)>>
                  /\ sPc' = "wfLlm"
             ELSE /\ messages' = Append(messages, Msg("assistant", "llmResponse"))
                  /\ sPc' = "prompt"
                  /\ sCmd'.outcome = "done"

\* C22: each iteration of a prompt workflow obtains one reply of the model
\* and gives it to processLLMResponse; when the reply was dispatched as a
\* tool call, the assistant reply and then the result as a system message
\* are appended and the loop goes round; when it was not, the assistant
\* reply alone is appended and the workflow ends.
C22_WorkflowIteration == [][WorkflowIteration]_vars

\* C22 witness: a workflow whose first reply was executed and whose second
\* reply was prose has ended with the three messages at the end of the
\* history.
C22_Witness ==
  /\ sCmd.kind = "prompt"
  /\ sCmd.outcome = "done"
  /\ sCmd.iters = 2
  /\ sPc = "prompt"
  /\ Len(messages) >= 4
  /\ SubSeq(messages, Len(messages) - 2, Len(messages)) =
       <<Msg("assistant", "llmResponse"), Msg("system", "toolResult"),
         Msg("assistant", "llmResponse")>>

\* a workflow leaves its loop only on a reply that processLLMResponse gave
\* back unchanged, and on such a reply it does leave; after any reply with a
\* result it asks the model again, however many iterations were made
WorkflowEndsOnPlainReply ==
  /\ (sPc \in WorkflowPcs /\ sPc' \notin WorkflowPcs)
       <=> (sPc = "wfProcessing" /\ chPc = "done" /\ chResult.kind = "reply"
              /\ sPc' # sPc)
  /\ (sPc = "wfProcessing" /\ chPc = "done" /\ chResult.kind # "reply"
        /\ sPc' # sPc)
       => /\ sPc' = "wfLlm"
          /\ sCmd'.outcome = "none"
          /\ sCmd'.iters = sCmd.iters

NoProviderHas(kind, name) ==
  \A s \in Servers :
    IF kind = "prompt" THEN ~hasPrompt(handles[s], name)
    ELSE ~hasResource(handles[s], name)

\* the step that reads a /name or @name command whose name no provider has
NotFoundStep ==
  (/\ sInputs' = sInputs + 1
   /\ sCmd'.at = sInputs'
   /\ sCmd'.kind \in {"prompt", "resource"}
   /\ NoProviderHas(sCmd'.kind, sCmd'.name))
    => /\ sCmd'.outcome = "notFound"
       /\ messages' = messages
       /\ handles' = handles
       /\ sLlmCalls' = sLlmCalls
       /\ sPc' = "prompt"
       /\ sEnd' = "none"
       /\ UNCHANGED <<chatVars, etVars, sseClientVars>>

\* C24: a /name or @name command whose name matches no prompt or resource
\* of any provider shows a not-found notice and does nothing else: the
\* history is unchanged, no provider and no model is called, no error
\* escapes and the loop of the session goes on to the next input.
C24_NotFoundOnlyNotice ==
  /\ [][NotFoundStep]_vars
  /\ [](sCmd.outcome = "notFound" =>
          /\ sCmd.server = 0
          /\ sCmd.iters = 0
          /\ NoProviderHas(sCmd.kind, sCmd.name))

\* C24 witness: /known was not found, no cache holding a prompt, and the
\* session went on to read a question; nothing but the question was pushed.
C24_Witness ==
  /\ sCmd = [NoCmd EXCEPT !.kind = "prompt", !.name = "known",
                          !.outcome = "notFound", !.at = 1]
  /\ sInputs = 2
  /\ sPc = "llm"
  /\ messages = <<Msg("system", "systemMessage"), Msg("user", "userInput")>>

\* C25: the tool catalog start() builds from its providers holds at most one
\* descriptor for a tool name, also when two providers report a tool of the
\* same name.
C25_CatalogDeduplicated ==
  sPc = "prompt" => NoDuplicateNames(allTools)

\* executeTool threw after its last attempt failed
ExecutionFailed ==
  /\ etPc = "done"
  /\ etOutcome.kind = "thrown"
  /\ Len(etCallLog) = etRetries
  /\ \A j \in 1..Len(etCallLog) : etCallLog[j].kind = "thrown"

\* processLLMResponse turns the failure into the text it returns
FailureReturnedAsText ==
  (chPc = "done" /\ ExecutionFailed)
    => chResult = [kind |-> "toolError", detail |-> etOutcome.error]

\* the turn pushes the text after the assistant reply, asks the model for
\* the follow-up and goes back to promptForInput
FailedTurnGoesOn ==
  /\ (sPc = "processing" /\ chPc = "done" /\ chResult.kind = "toolError"
        /\ sPc' # sPc)
       => /\ messages' = messages \o <<Msg("assistant", "llmResponse"),
                                       Msg("system", "toolError")>>
          /\ sPc' = "followUp"
          /\ sEnd' = "none"
  /\ (sPc = "followUp" /\ sPc' # sPc)
       => /\ \E c \in FinalContents :
               messages' = Append(messages, Msg("assistant", c))
          /\ sPc' = "prompt"
          /\ sEnd' = "none"

\* C26: when executeTool fails after using up its retries, processLLMResponse
\* does not throw but returns the text "Error executing tool: <error>"; the
\* turn appends it to the history as a system message and the session goes
\* on with the next input.
C26_ExecutionFailureBecomesMessage ==
  []FailureReturnedAsText /\ [][FailedTurnGoesOn]_vars

\* C26 witness: a turn whose tool failed on every attempt has pushed the
\* error text and the follow-up, and the next question has been read.
C26_Witness ==
  /\ Len(messages) = 6
  /\ messages[3] = Msg("assistant", "llmResponse")
  /\ messages[4] = Msg("system", "toolError")
  /\ messages[5] = Msg("assistant", "finalResponse")
  /\ messages[6] = Msg("user", "userInput")
  /\ sInputs = 2

\* processLLMResponse took the reply for a tool call
Recognised == isToolCall(stripFence(chReply))

\* C27 (as claimed): only a reply that does not parse as a tool call is
\* returned unchanged; every failure after the reply was recognised as a
\* tool call (listTools of a provider failing, no provider having the tool,
\* the execution failing) gives a result different from the reply.
C27_FailureAfterRecognitionIsReported ==
  (chPc = "done" /\ Recognised) => chResult.kind # "reply"

\* executeTool calls issued by the current processLLMResponse
ExecuteToolCalls == SelectSeq(chCalls, LAMBDA c : c.op = "executeTool")

\* an executeTool call that has not returned to processLLMResponse is the one
\* call the session is awaiting; at promptForInput nothing is pending and
\* the history ends with what the last turn or command pushed last
OneCallOneTurn ==
  /\ etPc # "idle" =>
       /\ chPc \in {"executing", "done"}
       /\ sPc \in {"processing", "wfProcessing"}
       /\ Len(ExecuteToolCalls) = 1
       /\ ExecuteToolCalls[1].server = chServer
  /\ chPc # "off" => sPc \in {"processing", "wfProcessing"}
  /\ sPc = "prompt" =>
       /\ chPc = "off"
       /\ etPc = "idle"
       /\ messages[Len(messages)] \in
            {Msg("system", "systemMessage"), Msg("system", "resource"),
             Msg("assistant", "llmResponse"), Msg("assistant", "finalResponse"),
             Msg("assistant", "finalToolCall")}

\* input is read and a tool call is started only from those states, and the
\* arrival of a stream event moves neither the turn nor the call
OneStepAtATime ==
  /\ sInputs' # sInputs => (sPc = "prompt" /\ chPc = "off" /\ etPc = "idle")
  /\ (etPc = "idle" /\ etPc' # "idle") =>
       (chPc = "executing" /\ chPc' = chPc /\ sPc' = sPc)
  /\ sseReceived' # sseReceived =>
       UNCHANGED <<sPc, chPc, etPc, messages, chCalls, etCallLog>>

\* C28: the session processes one turn at a time and has at most one
\* executeTool call in flight over all providers; the next input is read
\* only after the tool result and the follow-up of the current turn are in
\* the history, while stream events may arrive at any time.
C28_OneTurnOneCall == []OneCallOneTurn /\ [][OneStepAtATime]_vars

\* C28 witness: an event of the subscription is on its way while the
\* executeTool call of a network-ping turn is in flight.
C28_Witness ==
  /\ etPc = "calling"
  /\ sPc = "processing"
  /\ chTool = "network-ping"
  /\ esState[chSessionId] = "open"
  /\ sseWire[chSessionId] # <<>>

(***************************************************************************)
(* Claims about a subscriber that leaves                                   *)
(***************************************************************************)
\* the subscriber of operation 1 has gone and the server has forgotten it
SubscriberGone ==
  /\ esState[SidOf(1)] = "closed"
  /\ SidOf(1) \notin sseConnections

\* the close handler removes the entry of the id and touches no operation;
\* an event sent for an id without entry is written nowhere and changes no
\* registration
DisconnectLeavesOperation ==
  /\ (sseConnections' # sseConnections /\ sseEmitted' = sseEmitted
        /\ SidOf(1) \in sseConnections)
       => /\ sseConnections' = sseConnections \ {SidOf(1)}
          /\ ops' = ops
          /\ sseWire' = sseWire
  /\ (sseEmitted' # sseEmitted /\ SidOf(1) \notin sseConnections)
       => /\ sseWire' = sseWire
          /\ sseConnections' = sseConnections
          /\ ~sseEmitted'[SidOf(1)][Len(sseEmitted'[SidOf(1)])].live
  /\ (ops[1].pc = "running" /\ ops'[1].pc = "returned")
       => ops'[1].result # NoResult

\* C29: when the subscriber of a running streaming operation disconnects,
\* the operation is not aborted: the registry entry of the id is removed,
\* later events for the id are dropped without error, the command keeps
\* running and streamCommand still returns the result of the operation.
C29_DisconnectDoesNotAbort ==
  /\ [][DisconnectLeavesOperation]_vars
  /\ (SubscriberGone /\ ops[1].kind = "streamCommand" /\ ops[1].pc = "running")
       ~> (ops[1].pc = "returned" /\ ops[1].result # NoResult)

\* C29 witness: the subscriber received the start event and left while the
\* command ran; the completion event was dropped and streamCommand returned
\* the result of the completed command.
C29_Witness ==
  /\ SubscriberGone
  /\ ops[1].kind = "streamCommand"
  /\ ops[1].pc = "returned"
  /\ ops[1].completions = 1
  /\ ops[1].result # NoResult
  /\ Len(sseEmitted[SidOf(1)]) >= 2
  /\ sseEmitted[SidOf(1)][1].event.kind = "start"
  /\ sseEmitted[SidOf(1)][1].live
  /\ LET last == sseEmitted[SidOf(1)][Len(sseEmitted[SidOf(1)])]
     IN  /\ last.event.kind = "complete"
         /\ ~last.reg

(***************************************************************************)
(* Claims about LLMClient.getResponse                                      *)
(***************************************************************************)
\* the pool of the provider a getResponse call works for
PoolOf(provider) == IF provider = "groq" THEN groqApiKeys ELSE geminiApiKeys

\* the attempts of the current (or last) getResponse call: no more than the
\* pool has keys, each but the last ended by a rate-limit error, and no
\* position of the pool used twice
AttemptsWithinPool ==
  llm.pc \in {"attempting", "done"} =>
    /\ llm.maxRetries = Len(PoolOf(llm.provider))
    /\ Len(llm.log) <= llm.maxRetries
    /\ \A j \in 1..Len(llm.log) :
         /\ j < Len(llm.log) => llm.log[j].outcome = "rateLimit"
         /\ llm.log[j].idx \in 0..Len(PoolOf(llm.provider))
         /\ llm.log[j].idx # 0 =>
              llm.log[j].key = PoolOf(llm.provider)[llm.log[j].idx]
    /\ \A i, j \in 1..Len(llm.log) :
         llm.log[i].idx = llm.log[j].idx => i = j
    /\ llm.pc = "attempting" =>
         /\ Len(llm.log) = llm.attempt
         /\ \A j \in 1..Len(llm.log) : llm.log[j].outcome = "rateLimit"

\* the client of the provider is replaced only in the step that caught a
\* rate-limit error, and any other error ends the call in that step
NextKeyOnlyAfterRateLimit ==
  /\ (llm.pc = "attempting" /\ clientOf(llm') # clientOf(llm))
       => /\ Len(llm'.log) = Len(llm.log) + 1
          /\ llm'.log[Len(llm'.log)].outcome = "rateLimit"
  /\ (llm.pc = "attempting" /\ Len(llm'.log) = Len(llm.log) + 1
        /\ llm'.log[Len(llm'.log)].outcome = "otherError")
       => /\ llm'.pc = "done"
          /\ llm'.result = "errorText"
          /\ clientOf(llm') = clientOf(llm)
          /\ UNCHANGED cfgVars

\* C30: one getResponse call makes at most totalKeys completion attempts,
\* goes on to the next credential only after a rate-limit or quota error,
\* stops at once on any other error, and within the call uses each
\* credential of the pool of the current provider at most once.
C30_AttemptsBoundedByPool ==
  []AttemptsWithinPool /\ [][NextKeyOnlyAfterRateLimit]_vars

\* C30 witness: the second getResponse call of a client with a pool of three
\* keys was rate-limited on every key: three attempts, one per key, the
\* rotation having wrapped round the pool.
C30_Witness ==
  /\ llm.calls = 2
  /\ llm.pc = "done"
  /\ llm.maxRetries = MaxKeys
  /\ Len(llm.log) = MaxKeys
  /\ \A j \in 1..Len(llm.log) : llm.log[j].outcome = "rateLimit"
  /\ llm.log[1].idx > llm.log[2].idx
  /\ llm.result = "errorText"

(***************************************************************************)
(* Claims about the rotation cursors                                       *)
(***************************************************************************)
\* the rotation cursor of a provider
cursorOf(provider) == IF provider = "groq" THEN currentGroqKeyIndex
                      ELSE currentGeminiKeyIndex

\* a step of getApiKeyForProvider(provider) that returned a key
ReturnedKeyFor(provider) ==
  /\ getApiKeyForProvider(provider)
  /\ keyReads'[Len(keyReads')].outcome = "ok"

\* C31: getApiKeyForProvider returns a key for the given provider without
\* rotating: after the call the rotation cursor of that provider is the same
\* as before it.
C31_GetKeyForProviderDoesNotRotate ==
  [][\A provider \in {"gemini", "groq"} :
       ReturnedKeyFor(provider) => cursorOf(provider)' = cursorOf(provider)]_vars

\* the cursor of a pool is a position of the pool, 0 for an empty pool
CursorInPool(keyArray, cursor) ==
  IF Len(keyArray) = 0 THEN cursor = 0
  ELSE 0 <= cursor /\ cursor < Len(keyArray)

CursorsInRange ==
  /\ CursorInPool(geminiApiKeys, currentGeminiKeyIndex)
  /\ CursorInPool(groqApiKeys, currentGroqKeyIndex)

\* C34: in every reachable state each provider's rotation cursor c satisfies
\* 0 <= c < K for a pool of K > 0 credentials (c = 0 for an empty pool), and
\* the pools are never changed after construction.
C34_CursorWithinPool ==
  []CursorsInRange /\ [][UNCHANGED <<geminiApiKeys, groqApiKeys>>]_vars

\* C34 witness: a read at the last position of a pool of several keys
\* returned that key and took the cursor back to 0.
C34_Witness ==
  \E i \in 1..Len(keyReads) :
    /\ keyReads[i].outcome = "ok"
    /\ keyReads[i].provider = "groq"
    /\ Len(groqApiKeys) > 1
    /\ keyReads[i].before[2] = Len(groqApiKeys) - 1
    /\ keyReads[i].after[2] = 0
    /\ keyReads[i].key = groqApiKeys[Len(groqApiKeys)]

\* every read recorded left the cursor of the other provider where it was
OtherCursorKept ==
  \A i \in 1..Len(keyReads) :
    /\ keyReads[i].provider = "groq" => keyReads[i].after[1] = keyReads[i].before[1]
    /\ keyReads[i].provider = "gemini" => keyReads[i].after[2] = keyReads[i].before[2]

\* C35: the two pools rotate independently: a read of llmApiKey advances
\* only the cursor of the provider current at that read, and the configured
\* current provider is the same after getApiKeyForProvider as before it,
\* also when the key read throws.
C35_PoolsRotateIndependently ==
  /\ []OtherCursorKept
  /\ [][llmProvider(LLM_PROVIDER') = llmProvider(LLM_PROVIDER)]_vars

\* C35 witness: with gemini the current provider, a key read for groq threw
\* on the empty groq pool, and a read for gemini returned a key and advanced
\* the gemini cursor alone; gemini is still the current provider.
C35_Witness ==
  /\ llmProvider(LLM_PROVIDER) = "gemini"
  /\ \E i, j \in 1..Len(keyReads) :
       /\ i < j
       /\ keyReads[i].provider = "groq"
       /\ keyReads[i].outcome = "NoCredentials"
       /\ keyReads[j].provider = "gemini"
       /\ keyReads[j].outcome = "ok"
       /\ keyReads[j].after[1] # keyReads[j].before[1]
       /\ keyReads[j].after[2] = keyReads[j].before[2]

(***************************************************************************)
(* Claims about what a chat turn appends to the history                    *)
(***************************************************************************)
\* the steps of a chat turn and what each appends: the user message when the
\* question is read, nothing while the completion and processLLMResponse
\* run, then the assistant reply (followed by the result as a system
\* message when the result differs from the reply), then the follow-up
ChatTurnAppends ==
  /\ (sPc = "prompt" /\ sPc' = "llm")
       => messages' = Append(messages, Msg("user", "userInput"))
  /\ (sPc \in {"llm", "processing"} /\ sPc' \in {"llm", "processing"})
       => messages' = messages
  /\ (sPc = "processing" /\ sPc' # "processing")
       => IF chResult.kind # "reply"
          THEN /\ sPc' = "followUp"
               /\ messages' = messages \o <<Msg("assistant", "llmResponse"),
                                            Msg("system", chResult.kind)>>
          ELSE /\ sPc' = "prompt"
               /\ messages' = Append(messages, Msg("assistant", "llmResponse"))
  /\ (sPc = "followUp" /\ sPc' # "followUp")
       => /\ sPc' = "prompt"
          /\ \E c \in FinalContents :
               messages' = Append(messages, Msg("assistant", c))

\* the history of a turn that executed a tool: the follow-up is requested on
\* user message, reply, result; its answer comes fourth
ToolTurnInOrder ==
  /\ sPc = "followUp" =>
       /\ Len(messages) >= 3
       /\ messages[Len(messages) - 2] = Msg("user", "userInput")
       /\ messages[Len(messages) - 1] = Msg("assistant", "llmResponse")
       /\ messages[Len(messages)].role = "system"
  /\ \A j \in 1..Len(messages) :
       (messages[j].role = "assistant" /\ messages[j].content \in FinalContents) =>
         /\ j >= 4
         /\ messages[j - 3] = Msg("user", "userInput")
         /\ messages[j - 2] = Msg("assistant", "llmResponse")
         /\ messages[j - 1].role = "system"
         /\ messages[j - 1].content \in {"toolResult", "toolError", "noServer"}

\* C32: a chat turn whose reply is dispatched as a tool call appends, in this
\* order, the user message, the assistant reply, the tool result as a system
\* message and one follow-up completion as an assistant message; a turn with
\* no tool call appends the user message and then the assistant reply.
C32_TurnHistoryOrder ==
  []ToolTurnInOrder /\ [][ChatTurnAppends]_vars

\* C32 witness: a turn with no tool call followed by a turn that executed a
\* tool: two messages, then four.
C32_Witness ==
  /\ sPc = "prompt"
  /\ Len(messages) = 7
  /\ messages[2] = Msg("user", "userInput")
  /\ messages[3] = Msg("assistant", "llmResponse")
  /\ messages[4] = Msg("user", "userInput")
  /\ messages[5] = Msg("assistant", "llmResponse")
  /\ messages[6] = Msg("system", "toolResult")
  /\ messages[7] = Msg("assistant", "finalResponse")

\* while the follow-up is awaited no processLLMResponse and no executeTool
\* is active, and one processLLMResponse issues one executeTool at most
OneToolPerTurn ==
  /\ sPc = "followUp" => (chPc = "off" /\ etPc = "idle")
  /\ Len(ExecuteToolCalls) <= 1

\* the step that receives the follow-up pushes it and goes back to
\* promptForInput: nothing of processLLMResponse, executeTool, the stream
\* client or the providers moves
FollowUpIsOnlyAppended ==
  (sPc = "followUp" /\ sPc' # sPc)
    => /\ sPc' = "prompt"
       /\ \E c \in FinalContents :
            messages' = Append(messages, Msg("assistant", c))
       /\ UNCHANGED <<chatVars, etVars, sseClientVars, srvVars, handles>>

\* C37: in a chat turn at most one tool is executed: the follow-up completion
\* obtained after a tool result is appended to the history as the
\* assistant's answer without being parsed or dispatched, even when it is
\* itself a well-formed tool call.
C37_FollowUpNotDispatched ==
  []OneToolPerTurn /\ [][FollowUpIsOnlyAppended]_vars

\* C37 witness: the follow-up of a turn that executed a tool had the form of
\* a tool call; it is the last message and the session waits for input.
C37_Witness ==
  /\ sPc = "prompt"
  /\ chPc = "off"
  /\ Len(messages) >= 5
  /\ messages[Len(messages) - 1] = Msg("system", "toolResult")
  /\ messages[Len(messages)] = Msg("assistant", "finalToolCall")

(***************************************************************************)
(* Claims about handleResourceCommand                                      *)
(***************************************************************************)
\* the steps of a resource command: reading the command pushes nothing; when
\* the read settles, the one system message is pushed for a found resource
\* with contents that the operator chose to attach, and nothing else is
ResourceCommandAppends ==
  /\ (sPc = "prompt" /\ sCmd' # sCmd /\ sCmd'.kind = "resource")
       => /\ messages' = messages
          /\ (sCmd'.server = 0 <=> sCmd'.outcome = "notFound")
          /\ (sCmd'.server = 0 <=> sPc' = "prompt")
  /\ (sPc = "resRead" /\ sPc' # sPc)
       => /\ sPc' = "prompt"
          /\ sCmd'.outcome \in {"error", "noContent", "attached", "notAttached"}
          /\ IF sCmd'.outcome = "attached"
             THEN /\ sCmd.server # 0
                  /\ hasResource(handles[sCmd.server], sCmd.name)
                  /\ messages' = Append(messages, Msg("system", "resource"))
             ELSE messages' = messages

\* C33: a resource command changes the history only when the resource was
\* found, its read returned contents and the operator confirmed attaching:
\* then one system message with the resource text is appended; when the
\* resource is not found, the read fails, there are no contents or the
\* operator declines, the history is unchanged.
C33_ResourceAttachedOnlyOnConfirm ==
  [][ResourceCommandAppends]_vars

\* C33 witness: the second input was a resource command that was read and
\* attached; the first input, a resource command that was declined, left the
\* history as it was.
C33_Witness ==
  /\ sCmd.kind = "resource"
  /\ sCmd.outcome = "attached"
  /\ sCmd.at = 2
  /\ sPc = "prompt"
  /\ messages = <<Msg("system", "systemMessage"), Msg("system", "resource")>>

(***************************************************************************)
(* Claims about executeTool and the results of the tool handlers           *)
(***************************************************************************)
\* the invocations whose elicitation request was sent
Asked == {o \in Ops : ops[o].pc # "idle"}

\* the attempts of the call that threw
ThrownAttempts == SelectSeq(etCallLog, LAMBDA c : c.kind = "thrown")

\* a result that client.callTool returned, flagged isError or not, ended the
\* call in the attempt that received it; an attempt is added by a throw only,
\* so the operator is asked once more per throw at most
ReturnedResultEndsCall ==
  /\ \A i \in 1..Len(etCallLog) :
       etCallLog[i].kind = "returned" =>
         /\ i = Len(etCallLog)
         /\ etPc = "done"
         /\ etOutcome = [kind |-> "returned",
                         result |-> normalizeResult(etCallLog[i].result)]
  /\ Len(ThrownAttempts) = etAttempt
  /\ Cardinality(Asked) <= Len(ThrownAttempts) + 1
  /\ ThrownAttempts = <<>> => Cardinality(Asked) <= 1

\* the flag of the two results a handler returns without running anything
RefusalFlags ==
  \A o \in Ops :
    ops[o].pc = "returned" =>
      /\ ops[o].response.action \in {"decline", "cancel"} =>
           ops[o].result.isError = "false"
      /\ ops[o].response = ThrownResponse => ops[o].result.isError = "true"

CompleteEvents(o) ==
  SelectSeq(sseEmitted[SidOf(o)],
            LAMBDA e : e.event.op = o /\ e.event.kind = "complete")

\* the completion branch has run exactly when both processes have closed,
\* never twice; a streaming command has sent one complete event per run of
\* the branch, and when no spawn error resolved the promise before, the
\* result is the one computed from the two exit codes
CompletionOnceBothClosed ==
  \A o \in Ops :
    /\ ops[o].completions <= 1
    /\ ops[o].completions = 1 <=> (ops[o].cmd = "closed" /\ ops[o].jc = "closed")
    /\ ops[o].kind = "streamCommand" =>
         Len(CompleteEvents(o)) = ops[o].completions
    /\ ops[o].kind # "streamCommand" => Len(CompleteEvents(o)) = 0
    /\ (ops[o].completions = 1 /\ ~ops[o].cmdErrored /\ ~ops[o].jcErrored) =>
         /\ ops[o].pc = "returned"
         /\ \E parseOk \in BOOLEAN, stderr \in {"none", "command", "jc"} :
              ops[o].result =
                completionResult(ops[o].kind, ops[o].tool, ops[o].env.cmdCode,
                                 ops[o].env.jcCode, parseOk, stderr)
    /\ (ops[o].completions = 0 /\ ~ops[o].cmdErrored /\ ~ops[o].jcErrored
          /\ ops[o].cmd # "none") => ops[o].result = NoResult

\* the close of the process that closes first, whichever it is, produces no
\* result and no complete event
FirstCloseProducesNothing ==
  \A o \in Ops :
    (ops[o].cmd = "spawned" /\ ops[o].jc = "spawned"
       /\ (ops'[o].cmd = "closed" \/ ops'[o].jc = "closed"))
      => /\ ops'[o].result = ops[o].result
         /\ ops'[o].completions = 0
         /\ sseEmitted' = sseEmitted

\* C38: in streamCommand and executeCommand the result computed from the
\* exit codes is produced only after both the command process and the jc
\* process have closed, whichever closes first, and for one operation the
\* completion branch runs once (one complete event, one result).
C38_CompletionAfterBothClose ==
  []CompletionOnceBothClosed /\ [][FirstCloseProducesNothing]_vars

\* C38 witness: a streaming ping whose two processes have both closed, the
\* command with exit code 2: one run of the branch, one complete event, and
\* the parsed output as the result.
C38_Witness ==
  \E o \in Ops :
    /\ ops[o].kind = "streamCommand"
    /\ ops[o].tool = "ping"
    /\ ops[o].cmd = "closed"
    /\ ops[o].jc = "closed"
    /\ ops[o].commandCode = 2
    /\ ops[o].completions = 1
    /\ Len(CompleteEvents(o)) = 1
    /\ ops[o].result = [text |-> "parsed jc JSON", isError |-> "absent"]

(***************************************************************************)
(* Claims about the operator's answer                                      *)
(***************************************************************************)
\* the line is the word w, in any case, with nothing but blanks around it
IsWord(line, w) ==
  /\ ~line.isNull
  /\ \E i \in 1..Len(line.text) :
       /\ i + Len(w) - 1 <= Len(line.text)
       /\ \A k \in 1..Len(w) : lowerChar(line.text[i + k - 1]) = w[k]
       /\ \A k \in 1..Len(line.text) :
            (k < i \/ k >= i + Len(w)) => line.text[k] \in Whitespace

SaysYes(line) == IsWord(line, <<"y">>) \/ IsWord(line, <<"y", "e", "s">>)
SaysNo(line) == IsWord(line, <<"n">>) \/ IsWord(line, <<"n", "o">>)

\* the result of the request handler for the line that was typed
AnswerDecides ==
  elicit.pc = "answered" =>
    /\ elicit.result.action \in {"accept", "decline", "cancel"}
    /\ elicit.result.action = "accept" <=> SaysYes(elicit.typed)
    /\ elicit.result.action = "decline" <=> SaysNo(elicit.typed)
    /\ elicit.result.action = "cancel" <=>
         (~SaysYes(elicit.typed) /\ ~SaysNo(elicit.typed))
    /\ elicit.result.content # "absent" <=> elicit.result.action = "accept"

\* a handler has spawned its processes or sent its lookup only on y or yes
RunsOnlyOnYes ==
  \A o \in Ops :
    (ops[o].spawns > 0 \/ ops[o].fetches > 0 \/ ops[o].cmd # "none"
       \/ ops[o].jc # "none")
      => /\ elicit.pc = "answered"
         /\ SaysYes(elicit.typed)
         /\ ops[o].response = elicit.result

\* C39: the operator's answer maps to one decision: getInputFromUser returns
\* accept only for the trimmed, case-insensitive input y or yes, decline for
\* n or no, and cancel for every other input, an empty one included; the
\* elicitation handler forwards a content payload only with accept, so a
\* command can run only after the operator typed y or yes.
C39_AnswerMapsToOneDecision ==
  AnswerDecides /\ RunsOnlyOnYes

\* C39 witness: the operator typed " YeS" and the processes of the command
\* were spawned.
C39_Witness ==
  /\ elicit.pc = "answered"
  /\ elicit.typed = [isNull |-> FALSE, text |-> <<" ", "Y", "e", "S">>]
  /\ elicit.result = [action |-> "accept", content |-> "approvedTrue"]
  /\ ops[1].kind = "executeCommand"
  /\ ops[1].spawns = 2

(***************************************************************************)
(* Claims about the arguments handed to executeTool                        *)
(***************************************************************************)
\* the value the model gave under "arguments", in the form in which the
\* arguments of a call are recorded
givenArgs(arguments) ==
  [base |-> IF arguments = "objectWithSessionId" THEN "object" ELSE arguments,
   sessionId |-> IF arguments = "objectWithSessionId" THEN "fromModel"
                 ELSE "absent"]

\* what the claim lets executeTool receive for a reply taken for a tool call
ArgumentsAsGiven ==
  LET given == givenArgs(stripFence(chReply).arguments)
  IN  /\ IF isStreamingTool(chTool)
         THEN /\ chSessionId \in SessionIds
              /\ chArgs = [given EXCEPT !.sessionId = chSessionId]
         ELSE /\ chArgs = given
              /\ chSessionId = "none"
              /\ \A sid \in SessionIds : esState[sid] = "none"
      /\ \A i \in 1..Len(chCalls) :
           chCalls[i].op = "executeTool" => chCalls[i].args = chArgs

\* C40 (as claimed): processLLMResponse passes the model's arguments to
\* executeTool unchanged and opens no stream subscription for every tool
\* other than network-ping and network-traceroute; for those two the only
\* change is that sessionId is set to the freshly minted id, overwriting any
\* sessionId the model supplied.
C40_ArgumentsPassedUnchanged ==
  (chPc \notin {"off", "idle"} /\ Recognised) => ArgumentsAsGiven

=============================================================================
